---- MODULE Spec2Model ----
(***************************************************************************)
(* Filter expression compiler of the ArmoniK command line client.          *)
(*                                                                         *)
(*   FilterParser.get_fields / get_status / parse   (core/filters.py)      *)
(*   FilterTransformer callbacks                    (core/filters.py)      *)
(*   parse_time_delta                               (commands/common.py)   *)
(*   _build_filter, ast.Name case                   (bitest.py)            *)
(*   _is_valid_field                                (core/settings.py)     *)
(*   FilterParam.__init__ / convert                 (core/params.py)       *)
(* and the plumbing of its commands:                                       *)
(*   reconcile_connection_details, error_handler    (core/decorators.py)   *)
(*   Configuration, config get / set                (core/config.py)       *)
(*   MutuallyExclusiveOption                        (core/options.py)      *)
(*   TimeDeltaParam.convert                         (commands/common.py)   *)
(*   the list commands, task create                 (commands/*.py)        *)
(*   cancel_sessions                                (admin.py)             *)
(*                                                                         *)
(* An expression is a sequence of whitespace-separated words.  The grammar *)
(* template (filter_grammar.jinja) is not part of the sources at hand: the *)
(* grammar is taken from the skeleton of larkfilter.py and from the table  *)
(* of section 4.2 of the specification.                                    *)
(***************************************************************************)
EXTENDS Integers, Sequences, FiniteSets, TLC

VARIABLES
    op,          \* the operation last called: "none", "parse", "convert", "build_filter", ...
    expression,  \* argument of the last FilterParser.parse call (sequence of words)
    fields,      \* field list rendered into the grammar by the last parse call
    tree,        \* parse tree of the last parse call
    result,      \* outcome of the last parse call
    name_arg,    \* argument of the last field-name lookup
    lookup,      \* outcome of the last field-name lookup
    instance,    \* the FilterParser shared by the callers: obj, filter, status_enum
    calls,       \* number of parse calls started on the instance
    generated,   \* number of generate_parser calls performed on the instance
    grammars,    \* the field list and status list rendered by these calls
    callers,     \* per caller: the line of parse it is at, and its argument
    frames,      \* per call frame: the locals parser, tree and transformer
    returned,    \* the <<expression, outcome>> of the parse calls that have ended, in order
    cmd,         \* the command-line operation in progress: "none", "reconcile", "list", ...
    cmd_args,    \* its arguments
    cmd_out,     \* what it returned or raised
    config_file, \* the content of the default configuration file
    pc,          \* position of the running command in its loop
    locals,      \* local variables of the running command
    server,      \* the cluster the command talks to
    requests,    \* the requests sent to the cluster, in order
    printed      \* what the command has printed, in order

call_vars == <<op, expression, fields, tree, result, name_arg, lookup>>
instance_vars == <<instance, calls, generated, grammars, callers, frames, returned>>
cli_vars == <<cmd, cmd_args, cmd_out, config_file, pc, locals, server, requests, printed>>
vars == <<call_vars, instance_vars, cli_vars>>

(***************************************************************************)
(* Bounds of the model.                                                    *)
(***************************************************************************)
MaxFactors == 3      \* comparisons joined by and/or in one expression
MaxCalls == 3        \* parse calls made on one FilterParser
MaxItems == 3        \* items a cluster holds, and the largest total it reports
MaxPageSize == 2     \* largest --page-size
MaxPage == 2         \* largest --page
MaxRequests == 5     \* list requests followed in one command
MaxSessions == 3     \* session ids given to cancel_sessions

(***************************************************************************)
(* Text.  A word is a TLA+ string; Chars gives its characters, so that the *)
(* conversions that look inside a literal (upper, lower, bool, int, split) *)
(* are computed character by character.                                    *)
(***************************************************************************)
Chars ==
    [w \in {"id", "ok", "x", "true", "false", "1", "-2", "+3", "1x",
            "running", "Running", "RUNNING", "cancelled", "CANCELLED", "bogus", "BOGUS",
            "2024-12-28T14:00:00Z", "P1Y2M3DT4H5M6S", "PT5M", "P2W", "00:10:00", "0:10:0.5",
            "\"1\"", " ", "\t"} |->
        CASE w = "id" -> <<"i", "d">>
          [] w = "ok" -> <<"o", "k">>
          [] w = "x" -> <<"x">>
          [] w = "true" -> <<"t", "r", "u", "e">>
          [] w = "false" -> <<"f", "a", "l", "s", "e">>
          [] w = "1" -> <<"1">>
          [] w = "-2" -> <<"-", "2">>
          [] w = "+3" -> <<"+", "3">>
          [] w = "1x" -> <<"1", "x">>
          [] w = "running" -> <<"r", "u", "n", "n", "i", "n", "g">>
          [] w = "Running" -> <<"R", "u", "n", "n", "i", "n", "g">>
          [] w = "RUNNING" -> <<"R", "U", "N", "N", "I", "N", "G">>
          [] w = "cancelled" -> <<"c", "a", "n", "c", "e", "l", "l", "e", "d">>
          [] w = "CANCELLED" -> <<"C", "A", "N", "C", "E", "L", "L", "E", "D">>
          [] w = "bogus" -> <<"b", "o", "g", "u", "s">>
          [] w = "BOGUS" -> <<"B", "O", "G", "U", "S">>
          [] w = "2024-12-28T14:00:00Z" ->
                <<"2", "0", "2", "4", "-", "1", "2", "-", "2", "8", "T",
                  "1", "4", ":", "0", "0", ":", "0", "0", "Z">>
          [] w = "P1Y2M3DT4H5M6S" ->
                <<"P", "1", "Y", "2", "M", "3", "D", "T", "4", "H", "5", "M", "6", "S">>
          [] w = "PT5M" -> <<"P", "T", "5", "M">>
          [] w = "P2W" -> <<"P", "2", "W">>
          [] w = "00:10:00" -> <<"0", "0", ":", "1", "0", ":", "0", "0">>
          [] w = "0:10:0.5" -> <<"0", ":", "1", "0", ":", "0", ".", "5">>
          [] w = "\"1\"" -> <<"\"", "1", "\"">>
          [] w = " " -> <<" ">>
          [] w = "\t" -> <<"\t">>]

\* The whitespace characters of the inputs: space and tab.
Whitespace == {" ", "\t"}

\* The word spelled by a sequence of characters.
Word(cs) == CHOOSE w \in DOMAIN Chars : Chars[w] = cs

IsText(cs) == \E w \in DOMAIN Chars : Chars[w] = cs

Digits == {"0", "1", "2", "3", "4", "5", "6", "7", "8", "9"}

DigitValue(c) ==
    CASE c = "0" -> 0 [] c = "1" -> 1 [] c = "2" -> 2 [] c = "3" -> 3 [] c = "4" -> 4
      [] c = "5" -> 5 [] c = "6" -> 6 [] c = "7" -> 7 [] c = "8" -> 8 [] c = "9" -> 9

LowerLetters == <<"a", "b", "c", "d", "e", "f", "g", "h", "i", "j", "k", "l", "m",
                  "n", "o", "p", "q", "r", "s", "t", "u", "v", "w", "x", "y", "z">>
UpperLetters == <<"A", "B", "C", "D", "E", "F", "G", "H", "I", "J", "K", "L", "M",
                  "N", "O", "P", "Q", "R", "S", "T", "U", "V", "W", "X", "Y", "Z">>

\* str.upper and str.lower, one character.
UpperChar(c) ==
    IF \E i \in 1..Len(LowerLetters) : LowerLetters[i] = c
    THEN UpperLetters[CHOOSE i \in 1..Len(LowerLetters) : LowerLetters[i] = c]
    ELSE c

LowerChar(c) ==
    IF \E i \in 1..Len(UpperLetters) : UpperLetters[i] = c
    THEN LowerLetters[CHOOSE i \in 1..Len(UpperLetters) : UpperLetters[i] = c]
    ELSE c

upper(cs) == [i \in 1..Len(cs) |-> UpperChar(cs[i])]
lower(cs) == [i \in 1..Len(cs) |-> LowerChar(cs[i])]

\* str.capitalize: the first character in upper case, the others in lower case.
capitalize(cs) == [i \in 1..Len(cs) |-> IF i = 1 THEN UpperChar(cs[i]) ELSE LowerChar(cs[i])]

AllDigits(cs) == Len(cs) > 0 /\ \A i \in 1..Len(cs) : cs[i] \in Digits

RECURSIVE DecimalValue(_)
DecimalValue(cs) ==
    IF Len(cs) = 0 THEN 0
    ELSE 10 * DecimalValue(SubSeq(cs, 1, Len(cs) - 1)) + DigitValue(cs[Len(cs)])

\* str.split(sep): the pieces of cs between the occurrences of sep.
RECURSIVE split(_, _)
split(cs, sep) ==
    IF \E i \in 1..Len(cs) : cs[i] = sep
    THEN LET i == CHOOSE k \in 1..Len(cs) : cs[k] = sep /\ \A j \in 1..(k - 1) : cs[j] # sep
         IN <<SubSeq(cs, 1, i - 1)>> \o split(SubSeq(cs, i + 1, Len(cs)), sep)
    ELSE <<cs>>

(***************************************************************************)
(* The filter of the resource: the ordered mapping _fields from a field    *)
(* name to its kind (FType), and the members of the status enumeration.    *)
(* The mapping is an input of the compiler; this one has the fields of the *)
(* session filter and one field of every other kind.                       *)
(***************************************************************************)
FType == {"STR", "BOOL", "NUM", "DATE", "DURATION", "STATUS", "ARRAY", "NA", "UNKNOWN"}

filter_fields ==
    << <<"session_id", "STR">>, <<"status", "STATUS">>, <<"client_submission", "BOOL">>,
       <<"size", "NUM">>, <<"partition_ids", "ARRAY">>, <<"options", "NA">>,
       <<"payload", "UNKNOWN">>, <<"created_at", "DATE">>, <<"duration", "DURATION">> >>

FieldNames == {filter_fields[i][1] : i \in 1..Len(filter_fields)}

KindOf(name) == filter_fields[CHOOSE i \in 1..Len(filter_fields) : filter_fields[i][1] = name][2]

status_enum_members == <<"RUNNING", "CANCELLED">>

(***************************************************************************)
(* FilterParser.get_fields: the comparator class and the value token of a  *)
(* field kind; kinds without a branch are skipped.                         *)
(***************************************************************************)
NoEntry == <<>>

FieldEntryAllKinds(kind) ==
    CASE kind = "STR" -> <<"string_comp", "STRING">>
      [] kind = "BOOL" -> <<"bool_comp", "BOOL">>
      [] kind = "NUM" -> <<"generic_comp", "SIGNED_INT">>
      [] kind = "DATE" -> <<"generic_comp", "DATETIME">>
      [] kind = "DURATION" -> <<"generic_comp", "DURATION">>
      [] kind = "STATUS" -> <<"status_comp", "STATUS">>
      [] OTHER -> <<"string_comp", "STRING">>

FieldEntry_StrGeneric(kind) ==
    CASE kind = "STR" -> <<"generic_comp", "STRING">>
      [] kind = "BOOL" -> <<"bool_comp", "BOOL">>
      [] kind = "NUM" -> <<"generic_comp", "SIGNED_INT">>
      [] kind = "DATE" -> <<"generic_comp", "DATETIME">>
      [] kind = "DURATION" -> <<"generic_comp", "DURATION">>
      [] kind = "STATUS" -> <<"status_comp", "STATUS">>
      [] OTHER -> NoEntry

FieldEntry(kind) ==
    CASE kind = "STR" -> <<"string_comp", "STRING">>
      [] kind = "BOOL" -> <<"bool_comp", "BOOL">>
      [] kind = "NUM" -> <<"generic_comp", "SIGNED_INT">>
      [] kind = "DATE" -> <<"generic_comp", "DATETIME">>
      [] kind = "DURATION" -> <<"generic_comp", "DURATION">>
      [] kind = "STATUS" -> <<"status_comp", "STATUS">>
      [] OTHER -> NoEntry

get_fields ==
    LET kept == SelectSeq(filter_fields, LAMBDA f : FieldEntry(f[2]) # NoEntry)
    IN [i \in 1..Len(kept) |->
            <<kept[i][1], FieldEntry(kept[i][2])[1], FieldEntry(kept[i][2])[2]>>]

\* FilterParser.get_status: the member names in lower case.
get_status == [i \in 1..Len(status_enum_members) |-> Word(lower(Chars[status_enum_members[i]]))]

(***************************************************************************)
(* The grammar.  Terminals.                                                *)
(***************************************************************************)
ComparatorWords ==
    {"=", "!=", "<", "<=", ">", ">=", "contains", "notcontains", "startswith", "endswith"}

\* The terminal a comparator word is lexed as.
ComparatorTerminal(w) ==
    CASE w = "=" -> "EQ"
      [] w = "!=" -> "NEQ"
      [] w = "<" -> "LT"
      [] w = "<=" -> "LTE"
      [] w = ">" -> "GT"
      [] w = ">=" -> "GTE"
      [] w = "contains" -> "IN"
      [] w = "notcontains" -> "NOTIN"
      [] w = "startswith" -> "STARTSWITH"
      [] w = "endswith" -> "ENDSWIDTH"

\* The comparator classes of the table of section 4.2.
ComparatorClass(comp) ==
    CASE comp = "string_comp" -> {"EQ", "NEQ", "IN", "NOTIN", "STARTSWITH", "ENDSWIDTH"}
      [] comp = "bool_comp" -> {"EQ", "NEQ"}
      [] comp = "status_comp" -> {"EQ", "NEQ"}
      [] comp = "generic_comp" -> {"EQ", "NEQ", "LT", "LTE", "GT", "GTE"}

\* cs matches pat, where "9" in pat stands for any digit.
MatchPattern(cs, pat) ==
    /\ Len(cs) = Len(pat)
    /\ \A i \in 1..Len(pat) : IF pat[i] = "9" THEN cs[i] \in Digits ELSE cs[i] = pat[i]

\* /\d{4}-\d{2}-\d{2}T\d{2}:\d{2}:\d{2}(?:Z|[+-]\d{2}:\d{2})/
MatchDATETIME(cs) ==
    LET base == <<"9", "9", "9", "9", "-", "9", "9", "-", "9", "9", "T",
                  "9", "9", ":", "9", "9", ":", "9", "9">>
        offset == <<"9", "9", ":", "9", "9">>
    IN \/ MatchPattern(cs, base \o <<"Z">>)
       \/ MatchPattern(cs, base \o <<"+">> \o offset)
       \/ MatchPattern(cs, base \o <<"-">> \o offset)

\* (?:\d+U)* from position i, the designators U taken in the order of units;
\* with time = FALSE a "T" opens the time part.
RECURSIVE MatchUnits(_, _, _, _)
MatchUnits(cs, i, units, time) ==
    IF i > Len(cs) THEN TRUE
    ELSE IF cs[i] = "T" /\ ~time THEN MatchUnits(cs, i + 1, <<"H", "M", "S">>, TRUE)
    ELSE /\ cs[i] \in Digits
         /\ \E j \in (i + 1)..Len(cs) :
                /\ \A k \in i..(j - 1) : cs[k] \in Digits
                /\ \E u \in 1..Len(units) :
                       /\ units[u] = cs[j]
                       /\ MatchUnits(cs, j + 1, SubSeq(units, u + 1, Len(units)), time)

\* /P(?:\d+Y)?(?:\d+M)?(?:\d+W)?(?:\d+D)?(?:T(?:\d+H)?(?:\d+M)?(?:\d+S)?)?/
MatchDURATION(cs) ==
    /\ Len(cs) >= 1
    /\ cs[1] = "P"
    /\ MatchUnits(cs, 2, <<"Y", "M", "W", "D">>, FALSE)

\* ["+" | "-"] digits
MatchSIGNED_INT(cs) ==
    IF Len(cs) > 0 /\ cs[1] \in {"+", "-"} THEN AllDigits(Tail(cs)) ELSE AllDigits(cs)

MatchBOOL(cs) == IsText(cs) /\ Word(cs) \in {"true", "false"}

\* a status name of the vocabulary, in any letter case
MatchSTATUS(cs, status) ==
    \E i \in 1..Len(status) : lower(cs) = Chars[status[i]]

\* /[^\s]+/
MatchSTRING(cs) == Len(cs) > 0 /\ \A i \in 1..Len(cs) : cs[i] \notin Whitespace

MatchTerminal(type, w, status) ==
    CASE type = "STRING" -> MatchSTRING(Chars[w])
      [] type = "BOOL" -> MatchBOOL(Chars[w])
      [] type = "SIGNED_INT" -> MatchSIGNED_INT(Chars[w])
      [] type = "DATETIME" -> MatchDATETIME(Chars[w])
      [] type = "DURATION" -> MatchDURATION(Chars[w])
      [] type = "STATUS" -> MatchSTATUS(Chars[w], status)

(***************************************************************************)
(* The grammar.  Rules, and the LALR parser built from them:               *)
(*     expr   : term ("or" term)*                                          *)
(*     term   : factor ("and" factor)*                                     *)
(*     factor : "(" expr ")" | "<field>" <comparator class> <VALUE>        *)
(* with one field alternative for every entry of the field list, named     *)
(* after the field.  A parse gives a tree, or fails at a position.         *)
(***************************************************************************)
Token(type, value) == [node |-> "token", type |-> type, value |-> value]
Tree(data, children) == [node |-> "tree", data |-> data, children |-> children]
NoTree == [node |-> "none"]

Parsed(t, next) == [ok |-> TRUE, tree |-> t, pos |-> next]
Rejected(at) == [ok |-> FALSE, tree |-> NoTree, pos |-> at]

\* The entry of the field list for the word w, if any.
HasField(fs, w) == \E i \in 1..Len(fs) : fs[i][1] = w
FieldOf(fs, w) == fs[CHOOSE i \in 1..Len(fs) : fs[i][1] = w]

RECURSIVE ParseExpr(_, _, _, _), ParseExprRest(_, _, _, _, _), ParseTerm(_, _, _, _),
          ParseTermRest(_, _, _, _, _), ParseFactor(_, _, _, _)

\* "(" expr . ")"
CloseParen(ws, inner) ==
    IF ~inner.ok THEN inner
    ELSE IF inner.pos <= Len(ws) /\ ws[inner.pos] = ")" THEN Parsed(inner.tree, inner.pos + 1)
    ELSE Rejected(inner.pos)

\* "<field>" . <comparator class> <VALUE>, for the entry f of the field list
FieldFactor(ws, i, f, status) ==
    IF i + 1 > Len(ws) \/ ws[i + 1] \notin ComparatorWords THEN Rejected(i + 1)
    ELSE IF ComparatorTerminal(ws[i + 1]) \notin ComparatorClass(f[2]) THEN Rejected(i + 1)
    ELSE IF i + 2 > Len(ws) THEN Rejected(i + 2)
    ELSE IF ~MatchTerminal(f[3], ws[i + 2], status) THEN Rejected(i + 2)
    ELSE Parsed(Tree(f[1], <<Token(ComparatorTerminal(ws[i + 1]), ws[i + 1]),
                             Token(f[3], ws[i + 2])>>),
                i + 3)

ParseFactor(ws, i, fs, status) ==
    IF i > Len(ws) THEN Rejected(i)
    ELSE IF ws[i] = "(" THEN CloseParen(ws, ParseExpr(ws, i + 1, fs, status))
    ELSE IF ~HasField(fs, ws[i]) THEN Rejected(i)
    ELSE FieldFactor(ws, i, FieldOf(fs, ws[i]), status)

\* term : acc factor . ("and" factor)*
TermNext(ws, fs, status, acc, f) ==
    IF ~f.ok THEN f ELSE ParseTermRest(ws, f.pos, fs, status, Append(acc, f.tree))

ParseTermRest(ws, i, fs, status, acc) ==
    IF i <= Len(ws) /\ ws[i] = "and"
    THEN TermNext(ws, fs, status, acc, ParseFactor(ws, i + 1, fs, status))
    ELSE Parsed(Tree("term", acc), i)

ParseTerm(ws, i, fs, status) == TermNext(ws, fs, status, <<>>, ParseFactor(ws, i, fs, status))

\* expr : acc term . ("or" term)*
ExprNext(ws, fs, status, acc, t) ==
    IF ~t.ok THEN t ELSE ParseExprRest(ws, t.pos, fs, status, Append(acc, t.tree))

ParseExprRest(ws, i, fs, status, acc) ==
    IF i <= Len(ws) /\ ws[i] = "or"
    THEN ExprNext(ws, fs, status, acc, ParseTerm(ws, i + 1, fs, status))
    ELSE Parsed(Tree("expr", acc), i)

ParseExpr(ws, i, fs, status) == ExprNext(ws, fs, status, <<>>, ParseTerm(ws, i, fs, status))

EndOfInput_Prefix(ws, e) == e

\* the input ends after the expr
EndOfInput(ws, e) == IF e.ok /\ e.pos <= Len(ws) THEN Rejected(e.pos) ELSE e

\* Lark.parse: the whole input is one expr, or the parse fails.
LarkParse(ws, fs, status) == EndOfInput(ws, ParseExpr(ws, 1, fs, status))

(***************************************************************************)
(* The lexer.  The words of an input are separated by one space; an item   *)
(* " " or "\t" of the input is one more whitespace character at that place.*)
(* The grammar ignores the space character (%ignore " "); any other        *)
(* character has to belong to a terminal.                                  *)
(***************************************************************************)
Ignored == {" "}

Lex(ws) == SelectSeq(ws, LAMBDA w : w \notin Ignored)

\* The place in the input of the p-th item that the lexer keeps.
InputPos(ws, p) ==
    LET kept == {i \in 1..Len(ws) : ws[i] \notin Ignored}
        upto(i) == Cardinality({k \in kept : k <= i})
    IN IF p > Cardinality(kept) THEN Len(ws) + (p - Cardinality(kept))
       ELSE CHOOSE i \in kept : upto(i) = p

\* The outcome of the parser on the kept items, as an outcome on the input.
Located(ws, r) == IF r.ok THEN r ELSE Rejected(InputPos(ws, r.pos))

(***************************************************************************)
(* Values.  A typed literal, a callable or an enumerator is a Val record;  *)
(* a call returns a value or raises an exception.                          *)
(***************************************************************************)
Val(type, s, n, b) == [type |-> type, s |-> s, n |-> n, b |-> b]
StrVal(s) == Val("str", s, 0, FALSE)
IntVal(n) == Val("int", "", n, FALSE)
BoolVal(b) == Val("bool", "", 0, b)
EnumVal(member) == Val("enum", member, 0, FALSE)
DatetimeVal(s) == Val("datetime", s, 0, FALSE)
TimedeltaVal(ms) == Val("timedelta", "", ms, FALSE)
Callable(f) == Val("callable", f, 0, FALSE)
NoVal == [type |-> "none"]

Return(v) == [exc |-> "none", orig |-> "none", val |-> v]
Raise(e) == [exc |-> e, orig |-> "none", val |-> NoVal]

\* Lark wraps an exception raised inside a callback into a VisitError.
Wrap(r) == IF r.exc = "none" THEN r ELSE [exc |-> "VisitError", orig |-> r.exc, val |-> NoVal]

(***************************************************************************)
(* The predicate algebra of the API binding: an accessor compared with a   *)
(* value gives a leaf; leaves combine with &, | and unary -.               *)
(***************************************************************************)
Accessor(name) == [tag |-> "accessor", field |-> name]
Leaf(a, cmp, v) == [tag |-> "leaf", field |-> a.field, cmp |-> cmp, value |-> v]
FilterAnd(l, r) == [tag |-> "and", left |-> l, right |-> r]
FilterOr(l, r) == [tag |-> "or", left |-> l, right |-> r]
FilterNeg(p) == [tag |-> "not", arg |-> p]
NoFilter == [tag |-> "none"]

(***************************************************************************)
(* int(str) and parse_time_delta.                                          *)
(***************************************************************************)
int(cs) ==
    IF ~MatchSIGNED_INT(cs) THEN Raise("ValueError")
    ELSE IF cs[1] = "-" THEN Return(0 - DecimalValue(Tail(cs)))
    ELSE IF cs[1] = "+" THEN Return(DecimalValue(Tail(cs)))
    ELSE Return(DecimalValue(cs))

\* str.ljust(width, fill)
ljust(cs, width, fill) ==
    IF Len(cs) >= width THEN cs ELSE cs \o [i \in 1..(width - Len(cs)) |-> fill]

\* "HH:MM:SS.MS" to a duration, in milliseconds.
parse_time_delta(time_str) ==
    LET parts == split(time_str, ":")
    IN IF Len(parts) # 3 THEN Raise("ValueError")
       ELSE LET hours == parts[1]
                minutes == parts[2]
                seconds == parts[3]
                pieces == SubSeq(split(seconds, ".") \o << <<"0">> >>, 1, 2)
                sec == pieces[1]
                microseconds == pieces[2]
                h == int(hours)
                m == int(minutes)
                sc == int(sec)
                ms == int(ljust(microseconds, 3, "0"))
            IN IF h.exc # "none" \/ m.exc # "none" \/ sc.exc # "none" \/ ms.exc # "none"
               THEN Raise("ValueError")
               ELSE Return(TimedeltaVal(((h.val * 60 + m.val) * 60 + sc.val) * 1000 + ms.val))

(***************************************************************************)
(* FilterTransformer: the token callbacks.                                 *)
(***************************************************************************)
DATETIME(tok) == Raise("NotImplementedError")

DURATION(tok) == parse_time_delta(Chars[tok.value])

\* bool(str) is the truth value of the string: it is not empty.
BOOL(tok) == Return(BoolVal(Len(Chars[tok.value]) > 0))

STATUS_NoUpper(tok) ==
    IF \E i \in 1..Len(status_enum_members) :
           Chars[status_enum_members[i]] = Chars[tok.value]
    THEN Return(EnumVal(Word(Chars[tok.value])))
    ELSE Raise("AttributeError")

\* getattr(status_enum, tok.value.upper())
STATUS(tok) ==
    IF \E i \in 1..Len(status_enum_members) :
           Chars[status_enum_members[i]] = upper(Chars[tok.value])
    THEN Return(EnumVal(Word(upper(Chars[tok.value]))))
    ELSE Raise("AttributeError")

STRING_(tok) == Return(StrVal(tok.value))

SIGNED_INT(tok) ==
    LET n == int(Chars[tok.value])
    IN IF n.exc = "none" THEN Return(IntVal(n.val)) ELSE n

EQ(tok) == Return(Callable("operator.eq"))
NEQ(tok) == Return(Callable("operator.ne"))
LT(tok) == Return(Callable("operator.lt"))
LTE_AsLT(tok) == Return(Callable("operator.lt"))
LTE(tok) == Return(Callable("operator.le"))
GT(tok) == Return(Callable("operator.gt"))
GTE(tok) == Return(Callable("operator.ge"))
IN_(tok) == Return(Callable("contains"))
NOTIN_AsIN(tok) == Return(Callable("contains"))
NOTIN(tok) == Return(Callable("notcontains"))
STARTSWITH(tok) == Return(Callable("startswith"))
ENDSWIDTH(tok) == Return(Callable("endswith"))

\* The functions the string callbacks return.
contains(a, b) == Leaf(a, "contains", b)
notcontains(a, b) == FilterNeg(Leaf(a, "contains", b))
startswith(a, b) == Leaf(a, "startswith", b)
endswith(a, b) == Leaf(a, "endswith", b)

\* Calling a callable on an accessor and a value.
Call(f, a, b) ==
    CASE f.s = "operator.eq" -> Leaf(a, "eq", b)
      [] f.s = "operator.ne" -> Leaf(a, "ne", b)
      [] f.s = "operator.lt" -> Leaf(a, "lt", b)
      [] f.s = "operator.le" -> Leaf(a, "le", b)
      [] f.s = "operator.gt" -> Leaf(a, "gt", b)
      [] f.s = "operator.ge" -> Leaf(a, "ge", b)
      [] f.s = "contains" -> contains(a, b)
      [] f.s = "notcontains" -> notcontains(a, b)
      [] f.s = "startswith" -> startswith(a, b)
      [] f.s = "endswith" -> endswith(a, b)

(***************************************************************************)
(* FilterTransformer: the rule callbacks.                                  *)
(***************************************************************************)
\* operator.and_ and operator.or_ on two filters
Apply(f, a, b) ==
    CASE f = "operator.and_" -> FilterAnd(a, b)
      [] f = "operator.or_" -> FilterOr(a, b)

\* functools.reduce(f, args), args not empty
reduce(f, args) ==
    LET acc[i \in 1..Len(args)] == IF i = 1 THEN args[1] ELSE Apply(f, acc[i - 1], args[i])
    IN acc[Len(args)]

reduce_right(f, args) ==
    LET acc[i \in 1..Len(args)] ==
            IF i = Len(args) THEN args[i] ELSE Apply(f, args[i], acc[i + 1])
    IN acc[1]

expr_RightFold(args) == reduce_right("operator.or_", args)
expr(args) == reduce("operator.or_", args)

term_RightFold(args) == reduce_right("operator.and_", args)
term(args) == reduce("operator.and_", args)

\* args[0](getattr(self._obj, name), args[1])
field(args, name) == Call(args[1], Accessor(name), args[2])

\* FilterTransformer.__getattr__, called with the callback's arguments
getattr_(name, args) ==
    IF name \notin FieldNames THEN Raise("ValueError")
    ELSE Wrap(Return(field(args, name)))

\* Transformer._call_userfunc_token
call_userfunc_token(tok) ==
    CASE tok.type = "DATETIME" -> Wrap(DATETIME(tok))
      [] tok.type = "DURATION" -> Wrap(DURATION(tok))
      [] tok.type = "BOOL" -> Wrap(BOOL(tok))
      [] tok.type = "STATUS" -> Wrap(STATUS(tok))
      [] tok.type = "STRING" -> Wrap(STRING_(tok))
      [] tok.type = "SIGNED_INT" -> Wrap(SIGNED_INT(tok))
      [] tok.type = "EQ" -> Wrap(EQ(tok))
      [] tok.type = "NEQ" -> Wrap(NEQ(tok))
      [] tok.type = "LT" -> Wrap(LT(tok))
      [] tok.type = "LTE" -> Wrap(LTE(tok))
      [] tok.type = "GT" -> Wrap(GT(tok))
      [] tok.type = "GTE" -> Wrap(GTE(tok))
      [] tok.type = "IN" -> Wrap(IN_(tok))
      [] tok.type = "NOTIN" -> Wrap(NOTIN(tok))
      [] tok.type = "STARTSWITH" -> Wrap(STARTSWITH(tok))
      [] tok.type = "ENDSWIDTH" -> Wrap(ENDSWIDTH(tok))
      [] OTHER -> Raise("ValueError")

\* Transformer._call_userfunc
call_userfunc(data, args) ==
    CASE data = "expr" -> Wrap(Return(expr(args)))
      [] data = "term" -> Wrap(Return(term(args)))
      [] OTHER -> getattr_(data, args)

\* Transformer.transform: children first, left to right; the first exception ends it.
RECURSIVE transform(_)
transform(t) ==
    IF t.node = "token" THEN call_userfunc_token(t)
    ELSE LET kids == [i \in 1..Len(t.children) |-> transform(t.children[i])]
             failed == {i \in 1..Len(kids) : kids[i].exc # "none"}
         IN IF failed # {}
            THEN kids[CHOOSE i \in failed : \A j \in failed : i <= j]
            ELSE call_userfunc(t.data, [i \in 1..Len(kids) |-> kids[i].val])

(***************************************************************************)
(* FilterParser.generate_parser and FilterParser.parse.                    *)
(***************************************************************************)
generate_parser_Consumed ==
    [fields |-> IF generated = 0 THEN get_fields ELSE <<>>, status |-> get_status]

generate_parser == [fields |-> get_fields, status |-> get_status]

Outcome(kind, orig, pos, f) == [kind |-> kind, orig |-> orig, pos |-> pos, filter |-> f]
NoOutcome == Outcome("none", "none", 0, NoFilter)

\* the transformer's result as the result of parse
Lowered(r) ==
    IF r.exc = "none" THEN Outcome("Filter", "none", 0, r.val)
    ELSE Outcome(r.exc, r.orig, 0, NoFilter)

\* FilterTransformer(...).transform(tree) on the outcome p of the parser
Transformed(p) ==
    IF ~p.ok THEN Outcome("UnexpectedInput", "none", p.pos, NoFilter)
    ELSE Lowered(transform(p.tree))

ParseTree(ws, parser) == Located(ws, LarkParse(Lex(ws), parser.fields, parser.status))

parse(ws) == Transformed(ParseTree(ws, generate_parser))

(***************************************************************************)
(* FilterParam.convert: the filter of self.parser.parse(value), or         *)
(* click.BadParameter (self.fail) for the two exceptions it catches; any   *)
(* other exception passes through.                                         *)
(***************************************************************************)
Converted_SyntaxOnly(r) ==
    CASE r.kind = "UnexpectedInput" -> Outcome("BadParameter", "UnexpectedInput", r.pos, NoFilter)
      [] OTHER -> r

Converted(r) ==
    CASE r.kind = "UnexpectedInput" -> Outcome("BadParameter", "UnexpectedInput", r.pos, NoFilter)
      [] r.kind = "VisitError" -> Outcome("BadParameter", r.orig, 0, NoFilter)
      [] OTHER -> r

convert(value) == Converted(parse(value))

(***************************************************************************)
(* FilterParam.__init__: the resource, its filter and its status           *)
(* enumeration are looked up by name in armonik.common, and FilterParser   *)
(* is called with them and with options_fields and output_fields.          *)
(***************************************************************************)
\* The filter type names the constructor is called with.
TypeNameChars ==
    [w \in {"Session", "session", "TASK", "result", "Partition", "partition", "foo", "sessions"} |->
        CASE w = "Session" -> <<"S", "e", "s", "s", "i", "o", "n">>
          [] w = "session" -> <<"s", "e", "s", "s", "i", "o", "n">>
          [] w = "TASK" -> <<"T", "A", "S", "K">>
          [] w = "result" -> <<"r", "e", "s", "u", "l", "t">>
          [] w = "Partition" -> <<"P", "a", "r", "t", "i", "t", "i", "o", "n">>
          [] w = "partition" -> <<"p", "a", "r", "t", "i", "t", "i", "o", "n">>
          [] w = "foo" -> <<"f", "o", "o">>
          [] w = "sessions" -> <<"s", "e", "s", "s", "i", "o", "n", "s">>]

ResourceNames ==
    { <<"S", "e", "s", "s", "i", "o", "n">>, <<"T", "a", "s", "k">>,
      <<"R", "e", "s", "u", "l", "t">>, <<"P", "a", "r", "t", "i", "t", "i", "o", "n">> }

\* The names armonik.common and armonik.common.filter define.
common ==
    ResourceNames
    \cup {n \o <<"S", "t", "a", "t", "u", "s">> : n \in ResourceNames \ {<<"P", "a", "r", "t", "i", "t", "i", "o", "n">>}}
common_filter == {n \o <<"F", "i", "l", "t", "e", "r">> : n \in ResourceNames}

\* getattr(module, name)
getattr_module(module, name) == IF name \in module THEN Return(StrVal("")) ELSE Raise("AttributeError")

\* Calling FilterParser with keyword arguments: __init__ has the parameters
\* obj, filter and status_enum.
FilterParser_call(kwargs) ==
    IF kwargs \subseteq {"obj", "filter", "status_enum"}
    THEN Return(StrVal("FilterParser"))
    ELSE Raise("TypeError")

\* raise ValueError(f"'{filter_type}' is not a valid filter type.")
NotAValidFilterType(filter_type) ==
    [exc |-> "ValueError", orig |-> "AttributeError", val |-> [type |-> "str", chars |-> filter_type]]

FilterParam_init(name) ==
    LET filter_type == capitalize(TypeNameChars[name])
        Partition == <<"P", "a", "r", "t", "i", "t", "i", "o", "n">>
    IN IF getattr_module(common, filter_type).exc # "none"
       THEN NotAValidFilterType(filter_type)
       ELSE IF getattr_module(common_filter, filter_type \o <<"F", "i", "l", "t", "e", "r">>).exc # "none"
       THEN NotAValidFilterType(filter_type)
       ELSE IF /\ filter_type # Partition
               /\ getattr_module(common, filter_type \o <<"S", "t", "a", "t", "u", "s">>).exc # "none"
       THEN NotAValidFilterType(filter_type)
       ELSE FilterParser_call({"obj", "filter", "status_enum", "options_fields", "output_fields"})

(***************************************************************************)
(* The field-name lookups outside the parser.                              *)
(***************************************************************************)
\* An enumeration member is true in a boolean context.
FType_UNKNOWN_truth == TRUE

\* _build_filter, case ast.Name:
\*   if id in _fields.keys() and _fields[id][0] != FType.NA or FType.UNKNOWN:
\*       return getattr(obj_type, id)
\*   raise SyntaxError()
build_filter_Name(id) ==
    IF (id \in FieldNames /\ KindOf(id) # "NA") \/ FType_UNKNOWN_truth
    THEN IF id \in FieldNames THEN Return(Accessor(id)) ELSE Raise("AttributeError")
    ELSE Raise("SyntaxError")

\* _is_valid_field
is_valid_field(value) ==
    IF value \in FieldNames /\ ~(KindOf(value) = "NA" \/ KindOf(value) = "UNKNOWN")
    THEN Return(StrVal(value))
    ELSE Raise("ValueError")

(***************************************************************************)
(* The expressions and names the operations are called with.               *)
(***************************************************************************)
Literals == DOMAIN Chars \ Whitespace

NameInputs == FieldNames \cup {"unknown_field"}

Comparisons == {<<f, c, v>> : f \in NameInputs, c \in ComparatorWords, v \in Literals}

\* The comparisons that compound expressions are built from.
SampleComparisons ==
    { <<"session_id", "=", "id">>, <<"status", "!=", "running">>,
      <<"session_id", "startswith", "ok">>, <<"size", "<=", "1">>,
      <<"client_submission", "=", "false">>, <<"created_at", ">", "2024-12-28T14:00:00Z">>,
      <<"unknown_field", "=", "x">> }

Connectives == {"and", "or"}

RECURSIVE Compounds(_)
Compounds(n) ==
    IF n <= 1 THEN SampleComparisons
    ELSE {e \o <<c>> \o f : e \in Compounds(n - 1), c \in Connectives, f \in SampleComparisons}

Parenthesised ==
    {a \o <<c, "(">> \o b \o <<d>> \o e \o <<")">> :
        a \in SampleComparisons, b \in SampleComparisons, e \in SampleComparisons,
        c \in Connectives, d \in Connectives}
    \cup {<<"(">> \o a \o <<")">> : a \in SampleComparisons}

Malformed ==
    { <<>>, <<"session_id">>, <<"session_id", "=">>, <<"session_id", "=", "id", "and">>,
      <<"session_id", "=", "id", "ok", "x">>, <<"(", "session_id", "=", "id">>,
      <<"session_id", "=", "id", ")">>, <<"and", "session_id", "=", "id">> }

\* Comparisons on an entry of the options map, in both spellings.
OptionsAccess == {"options.key", "options['key']"}
OptionsComparisons ==
    {<<a, c, v>> : a \in OptionsAccess,
                   c \in {"=", "!=", "contains", "notcontains", "startswith", "endswith"},
                   v \in {"id", "ok"}}

\* e with the whitespace character w added after its k-th word.
Insert(e, k, w) == SubSeq(e, 1, k) \o <<w>> \o SubSeq(e, k + 1, Len(e))

Spaced ==
    { <<"session_id", "=", "id">>, <<"size", "<=", "1">>,
      <<"session_id", "=", "id", "and", "status", "!=", "running">>,
      <<"(", "session_id", "=", "id", "or", "size", "<=", "1", ")">> }

WhitespaceVariants ==
    UNION {{Insert(e, k, w) : k \in 1..(Len(e) - 1), w \in Whitespace} : e \in Spaced}
    \cup {Insert(Insert(e, 2, w), 1, v) : e \in Spaced, w \in Whitespace, v \in Whitespace}

Expressions ==
    Comparisons \cup UNION {Compounds(n) : n \in 2..MaxFactors} \cup Parenthesised \cup Malformed
    \cup OptionsComparisons \cup WhitespaceVariants

(***************************************************************************)
(* One FilterParser and the callers of its parse method.                   *)
(***************************************************************************)
\* FilterParser.__init__: the three attributes, and nothing else.
FilterParser_init(obj, filter, status_enum) ==
    [obj |-> obj, filter |-> filter, status_enum |-> status_enum]

\* FilterTransformer.__init__
FilterTransformer_init(obj, filter, status_enum) ==
    [_obj |-> obj, _filter |-> filter, _status_enum |-> status_enum]

Callers == {"caller_1", "caller_2"}

\* The expressions the callers of the shared instance pass.
CallInputs ==
    { <<"session_id", "=", "id">>, <<"status", "!=", "running">>,
      <<"unknown_field", "=", "x">>, <<"created_at", ">", "2024-12-28T14:00:00Z">>,
      <<"session_id", "=", "id", "and", "status", "!=", "running">> }

\* The locals of one call of parse, before any is assigned.
NoFrame == [parser |-> <<>>, tree |-> NoTree, transformer |-> <<>>]

\* The frame that holds the locals of the call made by caller c: its own.
SlotOf_Shared(c) == "caller_1"
SlotOf(c) == c

(***************************************************************************)
(* Command-line plumbing.  None is Python's None; a str value is a TLA+    *)
(* string.                                                                 *)
(***************************************************************************)
None == "None"

(***************************************************************************)
(* Configuration (core/config.py).  An object has the attribute endpoint   *)
(* and the attributes of its class; the file holds to_dict() as JSON.      *)
(***************************************************************************)
config_keys == <<"endpoint">>
ConfigurationAttributes ==
    {"default_path", "_config_keys", "_default_config", "endpoint",
     "create_default_if_not_exists", "load_default", "has", "get", "set", "to_dict", "_save"}

Configuration(endpoint) == [is_none |-> FALSE, endpoint |-> endpoint]
NoConfiguration == [is_none |-> TRUE, endpoint |-> None]

\* Configuration.has(key): the key is one of _config_keys.
Configuration_has(key) == \E i \in 1..Len(config_keys) : config_keys[i] = key

\* Configuration.get(key)
Configuration_get(self, key) == IF Configuration_has(key) THEN self[key] ELSE None

(***************************************************************************)
(* reconcile_connection_details (core/decorators.py).  The keys are those  *)
(* of cl_inputs, in the order the wrapper of base_command builds the       *)
(* dictionary.  An attribute that the object does not have raises          *)
(* AttributeError.                                                         *)
(***************************************************************************)
ConnectionKeys == <<"endpoint", "certificate_authority", "client_certificate", "client_key">>
ConnectionKeySet == {ConnectionKeys[i] : i \in 1..Len(ConnectionKeys)}
NoParams == [key \in ConnectionKeySet |-> None]

\* One turn of the for loop: the value of final_params[key], or the exception.
reconcile_key(key, cl_inputs, default_config, optional_config) ==
    IF cl_inputs[key] # None
    THEN Return(cl_inputs[key])
    ELSE IF ~optional_config.is_none /\ Configuration_has(key)
    THEN IF "path" \notin ConfigurationAttributes
         THEN Raise("AttributeError")
         ELSE Return(Configuration_get(optional_config, key))
    ELSE IF "HAS" \notin ConfigurationAttributes
    THEN Raise("AttributeError")
    ELSE IF Configuration_has(key)
    THEN Return(Configuration_get(default_config, key))
    ELSE IF key = "endpoint"
    THEN Raise("UsageError")
    ELSE Return(None)

RECURSIVE reconcile_from(_, _, _, _, _)
reconcile_from(i, final_params, cl_inputs, default_config, optional_config) ==
    IF i > Len(ConnectionKeys) THEN Return(final_params)
    ELSE LET r == reconcile_key(ConnectionKeys[i], cl_inputs, default_config, optional_config)
         IN IF r.exc # "none" THEN r
            ELSE reconcile_from(i + 1, [final_params EXCEPT ![ConnectionKeys[i]] = r.val],
                                cl_inputs, default_config, optional_config)

reconcile_connection_details(cl_inputs, default_config, optional_config) ==
    reconcile_from(1, NoParams, cl_inputs, default_config, optional_config)

(***************************************************************************)
(* reconcile_connection_details (utils.py).  The two configuration files   *)
(* are loaded as dictionaries; a key the file does not have reads as None  *)
(* with dict.get.  A name that is bound nowhere raises NameError, an       *)
(* attribute a dict does not have raises AttributeError.                   *)
(***************************************************************************)
NamesInScope ==
    {"cli_params", "optional_config_file", "logger", "optional_config", "default_config",
     "final_params", "key", "ctx", "click", "ConfigFile"}
DictAttributes == {"get", "keys", "items", "values", "pop", "update"}
NoConfigFile == [is_none |-> TRUE, data |-> NoParams]
ConfigFile_load(data) == [is_none |-> FALSE, data |-> data]

utils_reconcile_key(key, cli_params, optional_config, default_config) ==
    IF cli_params[key] # None
    THEN IF "param_name" \notin NamesInScope
         THEN Raise("NameError")
         ELSE Return(cli_params[key])
    ELSE IF ~optional_config.is_none /\ optional_config.data[key] # None
    THEN IF "loc" \notin DictAttributes
         THEN Raise("AttributeError")
         ELSE Return(optional_config.data[key])
    ELSE IF default_config.data[key] # None
    THEN Return(default_config.data[key])
    ELSE IF key = "endpoint"
    THEN Raise("UsageError")
    ELSE Return(None)

RECURSIVE utils_reconcile_from(_, _, _, _, _)
utils_reconcile_from(i, final_params, cli_params, optional_config, default_config) ==
    IF i > Len(ConnectionKeys) THEN Return(final_params)
    ELSE LET r == utils_reconcile_key(ConnectionKeys[i], cli_params, optional_config,
                                      default_config)
         IN IF r.exc # "none" THEN r
            ELSE utils_reconcile_from(i + 1, [final_params EXCEPT ![ConnectionKeys[i]] = r.val],
                                      cli_params, optional_config, default_config)

utils_reconcile_connection_details(cli_params, optional_config, default_config) ==
    utils_reconcile_from(1, NoParams, cli_params, optional_config, default_config)

(***************************************************************************)
(* error_handler (core/decorators.py).  The wrapped command returns a      *)
(* value or raises; an exception is named by its class, a gRPC error       *)
(* carries its status code.  The classes of exceptions.py derive from      *)
(* click.ClickException.                                                   *)
(***************************************************************************)
ClickExceptions ==
    {"ClickException", "UsageError", "BadParameter",
     "ArmoniKCLIError", "InternalError", "InternalArmoniKError", "NotFoundError"}
StatusCodes == {"NOT_FOUND", "UNAVAILABLE", "INVALID_ARGUMENT"}
OtherExceptions == {"ValueError", "KeyError", "Exit"}
RpcError(code) == [exc |-> "RpcError", orig |-> code, val |-> NoVal]

Handled(r, out) == [result |-> r, printed |-> out]

error_handler_AllInternal(func, kwargs) ==
    IF func.exc = "none" THEN Handled(func, <<>>) ELSE Handled(Raise("InternalError"), <<>>)

\* wrapper(*args, **kwargs), func being the outcome of func(*args, **kwargs)
error_handler(func, kwargs) ==
    IF func.exc = "none" THEN Handled(func, <<>>)
    ELSE IF func.exc \in ClickExceptions THEN Handled(func, <<>>)
    ELSE IF func.exc = "RpcError"
    THEN IF func.orig = "NOT_FOUND"
         THEN Handled(Raise("NotFoundError"), <<>>)
         ELSE Handled(Raise("InternalError"), <<>>)
    ELSE IF "debug" \in DOMAIN kwargs /\ kwargs.debug
    THEN Handled(Return(NoVal), <<"print_exception">>)
    ELSE Handled(Raise("InternalError"), <<>>)

CommandOutcomes ==
    {Return(NoVal), Return(StrVal("value"))}
        \cup {Raise(e) : e \in ClickExceptions \cup OtherExceptions}
        \cup {RpcError(code) : code \in StatusCodes}
CommandKwargs == {[output |-> "json"], [output |-> "json", debug |-> FALSE],
                  [output |-> "json", debug |-> TRUE]}

(***************************************************************************)
(* MutuallyExclusiveOption (core/options.py).  opts holds the names of the *)
(* options given on the command line.                                      *)
(***************************************************************************)
OptionNames == {"from_bytes", "from_file", "local"}
MutuallyExclusiveOption(name, mutual, require_one) ==
    [name |-> name, mutual |-> mutual, require_one |-> require_one]
super_handle_parse_result == Return(StrVal("click.Option.handle_parse_result"))

handle_parse_result_NotRequired(self, opts) ==
    IF self.mutual \cap opts # {} /\ self.name \in opts
    THEN Raise("UsageError")
    ELSE super_handle_parse_result

handle_parse_result(self, opts) ==
    LET mutex == self.mutual \cap opts
    IN IF mutex # {} /\ self.name \in opts
       THEN Raise("UsageError")
       ELSE IF self.require_one /\ ~(mutex # {} \/ self.name \in opts)
       THEN Raise("UsageError")
       ELSE super_handle_parse_result

(***************************************************************************)
(* The list commands (commands/sessions.py, tasks.py, partitions.py,       *)
(* results.py).  The cluster reports a total and serves its items by       *)
(* pages, numbered from 0; it may hold fewer items than it reports.        *)
(***************************************************************************)
ListCommands == {"session", "task", "partition", "result"}
Cluster(total, n) == [total |-> total, items |-> [i \in 1..n |-> i]]
Clusters == UNION {{Cluster(total, n) : n \in 0..total} : total \in 0..MaxItems}

\* list_sessions / list_tasks / list_partitions / list_results of the API client
list_request(cluster, page, page_size) ==
    LET first == page * page_size + 1
        last == IF (page + 1) * page_size < Len(cluster.items)
                THEN (page + 1) * page_size ELSE Len(cluster.items)
    IN [total |-> cluster.total,
        items |-> IF first > last THEN <<>> ELSE SubSeq(cluster.items, first, last)]

\* curr_page = page if page > 0 else 0; the list is empty
ListLocals(page) ==
    [curr_page |-> IF page > 0 THEN page ELSE 0, list |-> <<>>, last |-> <<>>, total |-> 0]

\* total, sessions = sessions_client.list_sessions(...)
ListReceive(l, reply) == [l EXCEPT !.total = reply.total, !.last = reply.items]

\* The page after curr_page.  The pages from MaxRequests on hold no item and
\* are not told apart.
NextPage(curr_page) == IF curr_page < MaxRequests THEN curr_page + 1 ELSE curr_page

\* The rest of a turn of the while loop: the page received is added to the
\* list, then the loop is left or curr_page is incremented.
ListTurn(l, page) ==
    LET list == l.list \o l.last
        stop == page > 0 \/ Len(list) >= l.total
    IN [locals |-> [l EXCEPT !.list = list,
                             !.curr_page = IF stop THEN l.curr_page ELSE NextPage(l.curr_page)],
        stop |-> stop]

\* What formatted_print is given after the loop.
ListOutput(command, l) ==
    IF l.total > 0
    THEN IF command = "result" THEN l.last ELSE l.list
    ELSE <<>>

(***************************************************************************)
(* Configuration.set, to_dict, _save, load_default (core/config.py) and    *)
(* the commands 'config get' and 'config set' (commands/config.py).        *)
(***************************************************************************)
to_dict(self) == [endpoint |-> self.endpoint]
load_default(file) == Configuration(file.endpoint)
setattr(self, key, value) ==
    [k \in DOMAIN self \cup {key} |-> IF k = key THEN value ELSE self[k]]

Configured(self, file, saved) == [self |-> self, file |-> file, saved |-> saved]

Configuration_set_AnyKey(self, key, value, file) ==
    Configured(setattr(self, key, value), to_dict(setattr(self, key, value)), TRUE)

\* Configuration.set(key, value): the object and the file afterwards
Configuration_set(self, key, value, file) ==
    IF Configuration_has(key)
    THEN Configured(setattr(self, key, value), to_dict(setattr(self, key, value)), TRUE)
    ELSE Configured(self, file, FALSE)

Warning(key) == <<"Warning: '", key, "' is not a known configuration key.">>
Updated(key, value) == <<"Updated '", key, "' configuration with value '", value, "'.">>

\* config get KEY: what is printed
config_get(key, file) ==
    IF Configuration_has(key)
    THEN [key |-> key, value |-> Configuration_get(load_default(file), key)]
    ELSE Warning(key)

\* config set KEY VALUE: the configuration afterwards and what is printed
config_set(key, value, file) ==
    IF Configuration_has(key)
    THEN [config |-> Configuration_set(load_default(file), key, value, file),
          printed |-> Updated(key, value)]
    ELSE [config |-> Configured(load_default(file), file, FALSE),
          printed |-> Warning(key)]

ConfigKeys == {"endpoint", "not", "certificate_authority"}
ConfigValues == {"host:5001", "other:5001"}

(***************************************************************************)
(* TimeDeltaParam.convert (commands/common.py, core/params.py).  The value *)
(* is a sequence of characters.                                            *)
(***************************************************************************)
TimeDeltaParam_convert(value) ==
    IF parse_time_delta(value).exc = "ValueError"
    THEN Raise("BadParameter")
    ELSE parse_time_delta(value)

TimeValues ==
    {<<"1", "2", ":", "1", "1", ":", "1", "0", ".", "9", "8", "7">>,
     <<"1", "2", ":", "1", "1", ":", "1", "0">>,
     <<"0", ":", "1", "0", ":", "0">>,
     <<"0", ":", "1", "0", ":", "0", ".", "5">>,
     <<"0", ":", "0", ":", "1", ".", "0", "5">>,
     <<"0", ":", "0", ":", "1", ".", "1", "2", "3", "4">>,
     <<"1", ".", "0">>,
     <<"1", "0">>,
     <<"0", "0", ":", "1", "0">>,
     <<"1", ":", "2", ":", "3", ":", "4">>,
     <<"a", ":", "0", ":", "0">>,
     <<"0", ":", "b", ":", "0">>,
     <<"0", ":", "0", ":", "c">>,
     <<"0", ":", "0", ":", "1", ".", "x">>,
     <<"0", ":", ":", "1">>,
     <<"1", ":", "2", ":", "3", ".", "4", ".", "5">>,
     <<"0", ":", "0", ":", "1", ".">>,
     <<>>}

(***************************************************************************)
(* task create (commands/tasks.py).  An option that is not given is None;  *)
(* the value of an option that is given is written as a string.            *)
(***************************************************************************)
TaskOptions(max_duration, priority, max_retries, partition_id) ==
    [max_duration |-> max_duration, priority |-> priority, max_retries |-> max_retries,
     partition_id |-> partition_id]
NoTaskOptions == [none |-> TRUE]
TaskDefinition(payload_id, task_options) ==
    [payload_id |-> payload_id, task_options |-> task_options]
submit_tasks(session_id, tasks) == [rpc |-> "SubmitTasks", session_id |-> session_id, tasks |-> tasks]
AllOrNothingMessage ==
    "If you want to pass in additional task options please provide all three (max duration, priority, max retries)"

Created(r, sent, out) == [result |-> r, requests |-> sent, printed |-> out]

tasks_create_Partial(session_id, payload_id, max_duration, priority, max_retries, partition_id) ==
    Created(Return(NoVal),
            <<submit_tasks(session_id, <<TaskDefinition(payload_id,
                IF max_duration # None /\ priority # None /\ max_retries # None
                THEN TaskOptions(max_duration, priority, max_retries, partition_id)
                ELSE NoTaskOptions)>>)>>,
            <<"submitted_tasks">>)

tasks_create(session_id, payload_id, max_duration, priority, max_retries, partition_id) ==
    IF max_duration # None /\ priority # None /\ max_retries # None
    THEN Created(Return(NoVal),
                 <<submit_tasks(session_id, <<TaskDefinition(payload_id,
                     TaskOptions(max_duration, priority, max_retries, partition_id))>>)>>,
                 <<"submitted_tasks">>)
    ELSE IF \E arg \in {max_duration, priority, max_retries} : arg # None
    THEN Created(Raise("InternalError"), <<>>, <<AllOrNothingMessage>>)
    ELSE Created(Return(NoVal),
                 <<submit_tasks(session_id, <<TaskDefinition(payload_id, NoTaskOptions)>>)>>,
                 <<"submitted_tasks">>)

(***************************************************************************)
(* cancel_sessions (admin.py).  The cluster refuses to cancel some of the  *)
(* sessions: cancel_session raises a gRPC error for them.                  *)
(***************************************************************************)
SessionIds == {"session-id1", "session-id2", "session-id3"}
SessionLists == UNION {[1..n -> SessionIds] : n \in 0..MaxSessions}
Refusing(ids) == [refused |-> ids]

\* client.cancel_session(session_id)
cancel_session(cluster, session_id) ==
    IF session_id \in cluster.refused THEN RpcError("UNAVAILABLE") ELSE Return(NoVal)

Canceled(session_id) == <<"Session ", session_id, " canceled successfully">>
ErrorForCanceling(session_id) == <<"Error for canceling session ", session_id>>

CancelTurn_StopAtError(i, sessions, reply) ==
    [i |-> i + 1,
     line |-> IF reply.exc = "none" THEN Canceled(sessions[i]) ELSE ErrorForCanceling(sessions[i]),
     stop |-> i + 1 > Len(sessions) \/ reply.exc # "none"]

\* One turn of the for loop, reply being the outcome of cancel_session.
CancelTurn(i, sessions, reply) ==
    [i |-> i + 1,
     line |-> IF reply.exc = "none" THEN Canceled(sessions[i])
              ELSE IF reply.exc = "RpcError" THEN ErrorForCanceling(sessions[i])
              ELSE <<>>,
     stop |-> i + 1 > Len(sessions) \/ reply.exc \notin {"none", "RpcError"}]

(***************************************************************************)
(* Inputs of the command-line operations.                                  *)
(***************************************************************************)
NoArgs == [none |-> TRUE]
NoLocals == [none |-> TRUE]
NoServer == [none |-> TRUE]

CommandLineInputs == [ConnectionKeySet -> {None, "cli"}]
OptionalConfigurations == {NoConfiguration, Configuration(None), Configuration("optional")}
DefaultConfigurations == {Configuration(None), Configuration("default")}
FileContents(v) ==
    {[NoParams EXCEPT !["endpoint"] = e, !["certificate_authority"] = c] : e, c \in {None, v}}
OptionalConfigFiles == {NoConfigFile} \cup {ConfigFile_load(d) : d \in FileContents("optional")}
DefaultConfigFiles == {ConfigFile_load(d) : d \in FileContents("default")}

(***************************************************************************)
(* The state machine: one operation is called, it returns, and the caller  *)
(* is ready for the next call.                                             *)
(***************************************************************************)
Init ==
    /\ op = "none"
    /\ expression = <<>>
    /\ fields = <<>>
    /\ tree = NoTree
    /\ result = NoOutcome
    /\ name_arg = ""
    /\ lookup = Return(NoVal)
    /\ instance = FilterParser_init("Session", filter_fields, status_enum_members)
    /\ calls = 0
    /\ generated = 0
    /\ grammars = {}
    /\ callers = [c \in Callers |-> [pc |-> "idle", expression |-> <<>>]]
    /\ frames = [c \in Callers |-> NoFrame]
    /\ returned = <<>>
    /\ cmd = "none"
    /\ cmd_args = NoArgs
    /\ cmd_out = Return(NoVal)
    /\ config_file = [endpoint |-> None]
    /\ pc = "idle"
    /\ locals = NoLocals
    /\ server = NoServer
    /\ requests = <<>>
    /\ printed = <<>>

\* FilterParser.parse(expression)
Parse ==
    /\ op = "none"
    /\ \E e \in Expressions :
        /\ op' = "parse"
        /\ expression' = e
        /\ fields' = generate_parser.fields
        /\ tree' = ParseTree(e, generate_parser).tree
        /\ result' = parse(e)
    /\ UNCHANGED <<name_arg, lookup>>
    /\ UNCHANGED <<instance_vars, cli_vars>>

\* FilterParam.convert(value, param, ctx)
Convert ==
    /\ op = "none"
    /\ \E value \in Expressions :
        /\ op' = "convert"
        /\ expression' = value
        /\ fields' = generate_parser.fields
        /\ tree' = ParseTree(value, generate_parser).tree
        /\ result' = convert(value)
    /\ UNCHANGED <<name_arg, lookup>>
    /\ UNCHANGED <<instance_vars, cli_vars>>

\* FilterParam(filter_type)
NewFilterParam ==
    /\ op = "none"
    /\ \E filter_type \in DOMAIN TypeNameChars :
        /\ op' = "FilterParam"
        /\ name_arg' = filter_type
        /\ lookup' = FilterParam_init(filter_type)
    /\ UNCHANGED <<expression, fields, tree, result>>
    /\ UNCHANGED <<instance_vars, cli_vars>>

\* _build_filter(ast.Name(id))
BuildFilterName ==
    /\ op = "none"
    /\ \E id \in NameInputs :
        /\ op' = "build_filter"
        /\ name_arg' = id
        /\ lookup' = build_filter_Name(id)
    /\ UNCHANGED <<expression, fields, tree, result>>
    /\ UNCHANGED <<instance_vars, cli_vars>>

\* _is_valid_field(value, filter)
IsValidField ==
    /\ op = "none"
    /\ \E value \in NameInputs :
        /\ op' = "is_valid_field"
        /\ name_arg' = value
        /\ lookup' = is_valid_field(value)
    /\ UNCHANGED <<expression, fields, tree, result>>
    /\ UNCHANGED <<instance_vars, cli_vars>>

\* The call has returned; its outcome is dropped.
Done ==
    /\ op # "none"
    /\ op' = "none"
    /\ expression' = <<>>
    /\ fields' = <<>>
    /\ tree' = NoTree
    /\ result' = NoOutcome
    /\ name_arg' = ""
    /\ lookup' = Return(NoVal)
    /\ UNCHANGED <<instance_vars, cli_vars>>

Next == Parse \/ Convert \/ NewFilterParam \/ BuildFilterName \/ IsValidField \/ Done

Spec == Init /\ [][Next]_vars

(***************************************************************************)
(* The callers of one FilterParser, each running parse line by line:       *)
(*     tree = self.generate_parser().parse(expression)                     *)
(*     filter = FilterTransformer(obj=..., filter=..., status_enum=...)    *)
(*                  .transform(tree)                                       *)
(*     return filter                                                       *)
(* The steps of different callers interleave freely.                       *)
(***************************************************************************)
At(c, line) == callers[c].pc = line
Goto(c, line) == callers' = [callers EXCEPT ![c].pc = line]
Ended(c, outcome) == returned' = Append(returned, <<callers[c].expression, outcome>>)

\* caller c calls parse(e)
CallParse(c) ==
    /\ At(c, "idle")
    /\ calls < MaxCalls
    /\ \E e \in CallInputs :
           callers' = [callers EXCEPT ![c] = [pc |-> "generate_parser", expression |-> e]]
    /\ calls' = calls + 1
    /\ UNCHANGED <<cli_vars, call_vars, instance, generated, grammars, frames, returned>>

\* self.generate_parser()
GenerateParser(c) ==
    /\ At(c, "generate_parser")
    /\ frames' = [frames EXCEPT ![SlotOf(c)].parser = generate_parser]
    /\ generated' = generated + 1
    /\ grammars' = grammars \cup {generate_parser}
    /\ Goto(c, "parse")
    /\ UNCHANGED <<cli_vars, call_vars, instance, calls, returned>>

\* tree = <parser>.parse(expression); a rejection ends the call
LarkParseCall(c) ==
    /\ At(c, "parse")
    /\ LET p == ParseTree(callers[c].expression, frames[SlotOf(c)].parser)
       IN IF p.ok
          THEN /\ frames' = [frames EXCEPT ![SlotOf(c)].tree = p.tree]
               /\ Goto(c, "FilterTransformer")
               /\ UNCHANGED returned
          ELSE /\ Ended(c, Transformed(p))
               /\ Goto(c, "idle")
               /\ UNCHANGED frames
    /\ UNCHANGED <<cli_vars, call_vars, instance, calls, generated, grammars>>

\* FilterTransformer(obj=self.obj, filter=self.filter, status_enum=self.status_enum)
NewTransformer(c) ==
    /\ At(c, "FilterTransformer")
    /\ frames' = [frames EXCEPT ![SlotOf(c)].transformer =
                      FilterTransformer_init(instance.obj, instance.filter,
                                             instance.status_enum)]
    /\ Goto(c, "transform")
    /\ UNCHANGED <<cli_vars, call_vars, instance, calls, generated, grammars, returned>>

\* filter = <transformer>.transform(tree); return filter
TransformCall(c) ==
    /\ At(c, "transform")
    /\ Ended(c, Lowered(transform(frames[SlotOf(c)].tree)))
    /\ Goto(c, "idle")
    /\ UNCHANGED <<cli_vars, call_vars, instance, calls, generated, grammars, frames>>

NextInstance ==
    \E c \in Callers :
        \/ CallParse(c)
        \/ GenerateParser(c)
        \/ LarkParseCall(c)
        \/ NewTransformer(c)
        \/ TransformCall(c)

SpecInstance == Init /\ [][NextInstance]_vars

(***************************************************************************)
(* The command-line operations.  An operation without a loop is one call   *)
(* that returns at once; the list commands and cancel_sessions advance one *)
(* request at a time.                                                      *)
(***************************************************************************)
Called(name, a, r) ==
    /\ cmd = "none"
    /\ cmd' = name
    /\ cmd_args' = a
    /\ cmd_out' = r

\* reconcile_connection_details(cl_inputs=..., default_config=..., optional_config=...)
Reconcile ==
    /\ \E cl_inputs \in CommandLineInputs, default_config \in DefaultConfigurations,
          optional_config \in OptionalConfigurations :
        Called("reconcile_connection_details",
               [cl_inputs |-> cl_inputs, default_config |-> default_config,
                optional_config |-> optional_config],
               reconcile_connection_details(cl_inputs, default_config, optional_config))
    /\ UNCHANGED <<config_file, pc, locals, server, requests, printed>>
    /\ UNCHANGED <<call_vars, instance_vars>>

\* utils.reconcile_connection_details(cli_params, optional_config_file, logger)
ReconcileUtils ==
    /\ \E cli_params \in CommandLineInputs, default_config \in DefaultConfigFiles,
          optional_config \in OptionalConfigFiles :
        Called("utils.reconcile_connection_details",
               [cl_inputs |-> cli_params, default_config |-> default_config.data,
                optional_config |-> optional_config.data],
               utils_reconcile_connection_details(cli_params, optional_config, default_config))
    /\ UNCHANGED <<config_file, pc, locals, server, requests, printed>>
    /\ UNCHANGED <<call_vars, instance_vars>>

\* error_handler(func)(**kwargs)
ErrorHandler ==
    /\ \E func \in CommandOutcomes, kwargs \in CommandKwargs :
        /\ Called("error_handler", [func |-> func, kwargs |-> kwargs],
                  error_handler(func, kwargs).result)
        /\ printed' = error_handler(func, kwargs).printed
    /\ UNCHANGED <<config_file, pc, locals, server, requests>>
    /\ UNCHANGED <<call_vars, instance_vars>>

\* MutuallyExclusiveOption.handle_parse_result(ctx, opts, args)
HandleParseResult ==
    /\ \E name \in OptionNames, mutual \in SUBSET OptionNames, require_one \in BOOLEAN,
          opts \in SUBSET OptionNames :
        Called("handle_parse_result",
               [self |-> MutuallyExclusiveOption(name, mutual, require_one), opts |-> opts],
               handle_parse_result(MutuallyExclusiveOption(name, mutual, require_one), opts))
    /\ UNCHANGED <<config_file, pc, locals, server, requests, printed>>
    /\ UNCHANGED <<call_vars, instance_vars>>

\* session list / task list / partition list / result list, up to the loop
ListStart ==
    /\ cmd = "none"
    /\ \E command \in ListCommands, page \in (-1)..MaxPage, page_size \in 1..MaxPageSize,
          cluster \in Clusters :
        /\ cmd' = "list"
        /\ cmd_args' = [command |-> command, page |-> page, page_size |-> page_size]
        /\ server' = cluster
        /\ locals' = ListLocals(page)
    /\ pc' = "request"
    /\ UNCHANGED <<cmd_out, config_file, requests, printed>>
    /\ UNCHANGED <<call_vars, instance_vars>>

\* The request for curr_page and its reply.  The requests are recorded up to
\* MaxRequests of them.
ListRequest ==
    /\ cmd = "list"
    /\ pc = "request"
    /\ requests' = IF Len(requests) < MaxRequests
                   THEN Append(requests, locals.curr_page) ELSE requests
    /\ locals' = ListReceive(locals, list_request(server, locals.curr_page, cmd_args.page_size))
    /\ pc' = "test"
    /\ UNCHANGED <<cmd, cmd_args, cmd_out, config_file, server, printed>>
    /\ UNCHANGED <<call_vars, instance_vars>>

\* the rest of the turn: the list grows, the loop is left or goes on
ListTest ==
    /\ cmd = "list"
    /\ pc = "test"
    /\ locals' = ListTurn(locals, cmd_args.page).locals
    /\ pc' = IF ListTurn(locals, cmd_args.page).stop THEN "print" ELSE "request"
    /\ UNCHANGED <<cmd, cmd_args, cmd_out, config_file, server, requests, printed>>
    /\ UNCHANGED <<call_vars, instance_vars>>

\* after the loop: if total > 0, formatted_print
ListPrint ==
    /\ cmd = "list"
    /\ pc = "print"
    /\ printed' = ListOutput(cmd_args.command, locals)
    /\ pc' = "done"
    /\ UNCHANGED <<cmd, cmd_args, cmd_out, config_file, locals, server, requests>>
    /\ UNCHANGED <<call_vars, instance_vars>>

\* Configuration(endpoint).set(key, value)
ConfigurationSet ==
    /\ \E endpoint \in ConfigValues \cup {None}, key \in ConfigKeys, value \in ConfigValues :
        /\ Called("Configuration.set",
                  [self |-> Configuration(endpoint), key |-> key, value |-> value,
                   file |-> config_file],
                  Return(NoVal))
        /\ locals' = Configuration_set(Configuration(endpoint), key, value, config_file)
        /\ config_file' = Configuration_set(Configuration(endpoint), key, value, config_file).file
    /\ UNCHANGED <<pc, server, requests, printed>>
    /\ UNCHANGED <<call_vars, instance_vars>>

\* Configuration(endpoint).get(key)
ConfigurationGet ==
    /\ \E endpoint \in ConfigValues \cup {None}, key \in ConfigKeys :
        Called("Configuration.get",
               [self |-> Configuration(endpoint), key |-> key, file |-> config_file],
               Return(Configuration_get(Configuration(endpoint), key)))
    /\ UNCHANGED <<config_file, pc, locals, server, requests, printed>>
    /\ UNCHANGED <<call_vars, instance_vars>>

\* config set KEY VALUE
ConfigSetCommand ==
    /\ \E key \in ConfigKeys, value \in ConfigValues :
        /\ Called("config set", [key |-> key, value |-> value, file |-> config_file],
                  Return(NoVal))
        /\ locals' = config_set(key, value, config_file).config
        /\ config_file' = config_set(key, value, config_file).config.file
        /\ printed' = <<config_set(key, value, config_file).printed>>
    /\ UNCHANGED <<pc, server, requests>>
    /\ UNCHANGED <<call_vars, instance_vars>>

\* config get KEY
ConfigGetCommand ==
    /\ \E key \in ConfigKeys :
        /\ Called("config get", [key |-> key, file |-> config_file], Return(NoVal))
        /\ printed' = <<config_get(key, config_file)>>
    /\ UNCHANGED <<config_file, pc, locals, server, requests>>
    /\ UNCHANGED <<call_vars, instance_vars>>

\* TimeDeltaParam().convert(value, param, ctx)
TimeDeltaConvert ==
    /\ \E value \in TimeValues :
        Called("TimeDeltaParam.convert", [value |-> value], TimeDeltaParam_convert(value))
    /\ UNCHANGED <<config_file, pc, locals, server, requests, printed>>
    /\ UNCHANGED <<call_vars, instance_vars>>

\* task create --session-id ... --payload-id ... [--max-duration ...] [--priority ...] [--max-retries ...]
TasksCreate ==
    /\ \E max_duration \in {None, "600000"}, priority \in {None, "0", "1"},
          max_retries \in {None, "0", "2"}, partition_id \in {None, "gpu"} :
        LET created == tasks_create("session-id", "payload-id", max_duration, priority,
                                    max_retries, partition_id)
        IN /\ Called("task create",
                     [max_duration |-> max_duration, priority |-> priority,
                      max_retries |-> max_retries, partition_id |-> partition_id],
                     created.result)
           /\ requests' = created.requests
           /\ printed' = created.printed
    /\ UNCHANGED <<config_file, pc, locals, server>>
    /\ UNCHANGED <<call_vars, instance_vars>>

\* cancel_sessions(client, sessions), up to the loop
CancelStart ==
    /\ cmd = "none"
    /\ \E sessions \in SessionLists, refused \in SUBSET SessionIds :
        /\ cmd' = "cancel_sessions"
        /\ cmd_args' = [sessions |-> sessions]
        /\ server' = Refusing(refused)
        /\ locals' = [i |-> 1]
        /\ pc' = IF Len(sessions) = 0 THEN "done" ELSE "cancel"
    /\ UNCHANGED <<cmd_out, config_file, requests, printed>>
    /\ UNCHANGED <<call_vars, instance_vars>>

\* one turn of the loop: cancel_session, then the line printed
CancelSession ==
    /\ cmd = "cancel_sessions"
    /\ pc = "cancel"
    /\ LET session_id == cmd_args.sessions[locals.i]
           turn == CancelTurn(locals.i, cmd_args.sessions, cancel_session(server, session_id))
       IN /\ requests' = Append(requests, session_id)
          /\ printed' = Append(printed, turn.line)
          /\ locals' = [i |-> turn.i]
          /\ pc' = IF turn.stop THEN "done" ELSE "cancel"
    /\ UNCHANGED <<cmd, cmd_args, cmd_out, config_file, server>>
    /\ UNCHANGED <<call_vars, instance_vars>>

\* The operation has returned; its outcome is dropped.
Finished ==
    /\ cmd # "none"
    /\ pc \in {"idle", "done"}
    /\ pc' = "idle"
    /\ cmd' = "none"
    /\ cmd_args' = NoArgs
    /\ cmd_out' = Return(NoVal)
    /\ locals' = NoLocals
    /\ server' = NoServer
    /\ requests' = <<>>
    /\ printed' = <<>>
    /\ UNCHANGED config_file
    /\ UNCHANGED <<call_vars, instance_vars>>

NextCli ==
    \/ Reconcile \/ ReconcileUtils \/ ErrorHandler \/ HandleParseResult
    \/ ListStart \/ ListRequest \/ ListTest \/ ListPrint
    \/ ConfigurationSet \/ ConfigurationGet \/ ConfigSetCommand \/ ConfigGetCommand
    \/ TimeDeltaConvert \/ TasksCreate \/ CancelStart \/ CancelSession \/ Finished

SpecCli == Init /\ [][NextCli]_vars

\* The command runs on: its loop takes a turn whenever it can, and the command
\* prints once the loop is left.
SpecCliLive ==
    SpecCli /\ WF_vars(ListRequest) /\ WF_vars(ListTest) /\ WF_vars(ListPrint)
            /\ WF_vars(CancelSession)

(***************************************************************************)
(* What the properties below speak of.                                     *)
(***************************************************************************)
\* The comparison a single factor is made of.
IsComparison(e) == Len(e) = 3 /\ e[1] \in NameInputs /\ e[2] \in ComparatorWords

\* The field names whose kind has a row with comparators in the table of section 4.2.
Filterable == {n \in FieldNames : KindOf(n) \in {"STR", "BOOL", "NUM", "DATE", "DURATION", "STATUS"}}

\* The comparison each comparator word stands for.
Comparison(w) ==
    CASE w = "=" -> "eq"
      [] w = "!=" -> "ne"
      [] w = "<" -> "lt"
      [] w = "<=" -> "le"
      [] w = ">" -> "gt"
      [] w = ">=" -> "ge"
      [] w = "contains" -> "contains"
      [] w = "startswith" -> "startswith"
      [] w = "endswith" -> "endswith"

\* ((s[1] f s[2]) f ...) f s[n]
RECURSIVE LeftFold(_, _)
LeftFold(tag, s) ==
    IF Len(s) = 1 THEN s[1]
    ELSE [tag |-> tag, left |-> LeftFold(tag, SubSeq(s, 1, Len(s) - 1)), right |-> s[Len(s)]]

\* The results of transforming the children of a tree node.
Kids(t) == [i \in 1..Len(t.children) |-> transform(t.children[i])]
AllReturn(rs) == \A i \in 1..Len(rs) : rs[i].exc = "none"
Vals(rs) == [i \in 1..Len(rs) |-> rs[i].val]

\* A comparison that the grammar accepts.
Accepted(e) == ParseTree(e, generate_parser).ok

(***************************************************************************)
(* C1.  Precedence law: for all comparisons a, b, c accepted by the        *)
(* grammar, parse("a and b or c") returns the predicate (a AND b) OR c,    *)
(* where a, b, c also stand for the predicates they compile to.            *)
(***************************************************************************)
C1_PrecedenceLaw ==
    op = "parse" =>
        \A a \in SampleComparisons, b \in SampleComparisons, c \in SampleComparisons :
            (/\ expression = a \o <<"and">> \o b \o <<"or">> \o c
             /\ Accepted(a) /\ Accepted(b) /\ Accepted(c))
            => /\ result.kind = "Filter"
               /\ result.filter =
                      FilterOr(FilterAnd(parse(a).filter, parse(b).filter), parse(c).filter)

\* The same law for the comparisons that compile on their own: it holds.
C1_PrecedenceOfCompiled ==
    op = "parse" =>
        \A a \in SampleComparisons, b \in SampleComparisons, c \in SampleComparisons :
            (/\ expression = a \o <<"and">> \o b \o <<"or">> \o c
             /\ parse(a).kind = "Filter" /\ parse(b).kind = "Filter" /\ parse(c).kind = "Filter")
            => /\ result.kind = "Filter"
               /\ result.filter =
                      FilterOr(FilterAnd(parse(a).filter, parse(b).filter), parse(c).filter)

(***************************************************************************)
(* C2.  Whenever the transformer reduces a term whose factors gave the     *)
(* predicates f1..fn it returns ((f1 AND f2) AND ...) AND fn, and whenever *)
(* it reduces an expr whose terms gave t1..tn it returns                   *)
(* ((t1 OR t2) OR ...) OR tn; with n = 1 that is the sub-predicate itself. *)
(***************************************************************************)
C2_LeftFolds ==
    (op = "parse" /\ tree # NoTree) =>
        /\ \A j \in 1..Len(tree.children) :
               LET t == tree.children[j]
               IN AllReturn(Kids(t)) =>
                      /\ transform(t) = Return(LeftFold("and", Vals(Kids(t))))
                      /\ Len(t.children) = 1 => transform(t).val = Kids(t)[1].val
        /\ AllReturn(Kids(tree)) =>
               /\ result = Outcome("Filter", "none", 0, LeftFold("or", Vals(Kids(tree))))
               /\ Len(tree.children) = 1 => result.filter = Kids(tree)[1].val

C2_Witness ==
    /\ op = "parse"
    /\ tree # NoTree
    /\ Len(tree.children) = 1
    /\ Len(tree.children[1].children) = 3
    /\ result.kind = "Filter"

(***************************************************************************)
(* C3.  A factor "field comparator literal" whose literal converts to the  *)
(* typed value v compiles to exactly the one leaf that the comparator      *)
(* stands for, on the field's accessor and v: = is ==, != is !=, <, <=, >, *)
(* >= the orderings, contains / startswith / endswith the string tests.    *)
(***************************************************************************)
C3_ComparatorLeaf ==
    (/\ op = "parse"
     /\ IsComparison(expression)
     /\ expression[2] # "notcontains"
     /\ tree # NoTree) =>
        LET v == transform(tree.children[1].children[1].children[2])
        IN v.exc = "none" =>
               result = Outcome("Filter", "none", 0,
                                Leaf(Accessor(expression[1]), Comparison(expression[2]), v.val))

C3_Witness ==
    /\ op = "parse"
    /\ expression = <<"size", "<=", "1">>
    /\ result.kind = "Filter"
    /\ result.filter.cmp = "le"

(***************************************************************************)
(* C4.  For every STRING field f and value v, "f notcontains v" compiles   *)
(* to the negation of what "f contains v" compiles to.                     *)
(***************************************************************************)
C4_NotContainsIsNegation ==
    (/\ op = "parse"
     /\ IsComparison(expression)
     /\ expression[1] \in FieldNames
     /\ KindOf(expression[1]) = "STR"
     /\ expression[2] = "notcontains") =>
        LET positive == parse(<<expression[1], "contains", expression[3]>>)
        IN /\ positive.kind = "Filter"
           /\ positive.filter = Leaf(Accessor(expression[1]), "contains", StrVal(expression[3]))
           /\ result = Outcome("Filter", "none", 0, FilterNeg(positive.filter))

C4_Witness ==
    /\ op = "parse"
    /\ expression = <<"session_id", "notcontains", "id">>
    /\ result.kind = "Filter"
    /\ result.filter.tag = "not"

(***************************************************************************)
(* C5.  Schema fidelity for DATE: for every DATE field and each of =, !=,  *)
(* <, <=, >, >=, an expression whose value is a well-formed ISO-8601       *)
(* datetime literal compiles to the predicate comparing the field with     *)
(* that datetime.                                                          *)
(***************************************************************************)
C5_DateCompiles ==
    (/\ op = "parse"
     /\ IsComparison(expression)
     /\ expression[1] \in FieldNames
     /\ KindOf(expression[1]) = "DATE"
     /\ expression[2] \in {"=", "!=", "<", "<=", ">", ">="}
     /\ MatchDATETIME(Chars[expression[3]])) =>
        result = Outcome("Filter", "none", 0,
                         Leaf(Accessor(expression[1]), Comparison(expression[2]),
                              DatetimeVal(expression[3])))

(***************************************************************************)
(* C6.  For every DURATION field, a value written as a well-formed         *)
(* ISO-8601 duration literal is converted to a duration value and the      *)
(* expression compiles.                                                    *)
(***************************************************************************)
C6_DurationCompiles ==
    (/\ op = "parse"
     /\ IsComparison(expression)
     /\ expression[1] \in FieldNames
     /\ KindOf(expression[1]) = "DURATION"
     /\ expression[2] \in {"=", "!=", "<", "<=", ">", ">="}
     /\ MatchDURATION(Chars[expression[3]])) =>
        /\ result.kind = "Filter"
        /\ result.filter.tag = "leaf"
        /\ result.filter.value.type = "timedelta"

(***************************************************************************)
(* C7.  For every BOOLEAN field the literal true is converted to True and  *)
(* the literal false to False: "f = false" compiles to f == False.         *)
(***************************************************************************)
C7_BoolLiterals ==
    (/\ op = "parse"
     /\ IsComparison(expression)
     /\ expression[1] \in FieldNames
     /\ KindOf(expression[1]) = "BOOL"
     /\ expression[2] \in {"=", "!="}
     /\ expression[3] \in {"true", "false"}) =>
        result = Outcome("Filter", "none", 0,
                         Leaf(Accessor(expression[1]), Comparison(expression[2]),
                              BoolVal(expression[3] = "true")))

(***************************************************************************)
(* C8.  A STATUS literal is matched against the status vocabulary whatever *)
(* its letter case: every casing of a member name converts to that member. *)
(* A name that is not a member yields no predicate.  As stated, that       *)
(* failure is an invalid-literal error of the conversion (C8_StatusLiteral)*)
(* ; in the amended form it is the parser that rejects the name, at the    *)
(* position of the literal (C8_StatusLiteralAmended).                      *)
(***************************************************************************)
IsStatusComparison(e) ==
    /\ IsComparison(e)
    /\ e[1] \in FieldNames
    /\ KindOf(e[1]) = "STATUS"
    /\ e[2] \in {"=", "!="}

\* The member of the enumeration that w names in some letter case, if any.
NamesMember(w, m) == lower(Chars[w]) = lower(Chars[m])

\* A bare identifier: letters only.
IsName(w) == \A i \in 1..Len(Chars[w]) : Chars[w][i] \notin Digits \cup {"-", "+", ":", "."}
Members == {status_enum_members[i] : i \in 1..Len(status_enum_members)}

StatusMemberConverted ==
    \A m \in Members :
        NamesMember(expression[3], m) =>
            result = Outcome("Filter", "none", 0,
                             Leaf(Accessor(expression[1]), Comparison(expression[2]), EnumVal(m)))

NotApplicable == {n \in FieldNames : KindOf(n) \in {"NA", "UNKNOWN"}}

C9_NonFilterableRejected ==
    /\ op = "parse" =>
           /\ \A i \in 1..Len(fields) : fields[i][1] \notin NotApplicable
           /\ (\E i \in 1..Len(expression) : expression[i] \in NotApplicable) =>
                  result.filter = NoFilter
    /\ (op = "build_filter" /\ name_arg \in NotApplicable) => lookup.exc # "none"

(***************************************************************************)
(* C10.  An expression that names a field outside the filterable field set *)
(* returns no predicate.  As stated, it fails with the unknown-field error *)
(* that names the field, which is the ValueError of the transformer's      *)
(* field lookup (C10_UnknownField); in the amended form it fails in the    *)
(* parser, with a syntax error at the field name (C10_UnknownFieldAmended).*)
(***************************************************************************)
Outside == {n \in NameInputs : n \notin FieldNames \/ n \in NotApplicable}
NamesOutside(e) == {i \in 1..Len(e) : e[i] \in Outside}

StringComparators == {"contains", "notcontains", "startswith", "endswith"}
OrderComparators == {"<", "<=", ">", ">="}

\* The comparators of each kind, after the table of section 4.2.
AllowedComparators(kind) ==
    CASE kind = "STR" -> {"=", "!="} \cup StringComparators
      [] kind \in {"BOOL", "STATUS"} -> {"=", "!="}
      [] kind \in {"NUM", "DATE", "DURATION"} -> {"=", "!="} \cup OrderComparators

ClassOfKind(kind) ==
    CASE kind = "STR" -> "string_comp"
      [] kind = "BOOL" -> "bool_comp"
      [] kind = "STATUS" -> "status_comp"
      [] kind \in {"NUM", "DATE", "DURATION"} -> "generic_comp"

C11_ComparatorByKind ==
    op = "parse" =>
        /\ \A i \in 1..Len(fields) : fields[i][2] = ClassOfKind(KindOf(fields[i][1]))
        /\ (IsComparison(expression) /\ expression[1] \in Filterable) =>
               LET kind == KindOf(expression[1])
               IN /\ expression[2] \notin AllowedComparators(kind) =>
                         result = Outcome("UnexpectedInput", "none", 2, NoFilter)
                  /\ (expression[2] \in StringComparators /\ tree # NoTree) => kind = "STR"
                  /\ (expression[2] \in OrderComparators /\ kind \in {"STR", "BOOL", "STATUS"}) =>
                         tree = NoTree /\ result.kind = "UnexpectedInput"

C11_Witness ==
    /\ op = "parse"
    /\ expression = <<"session_id", "<", "id">>
    /\ result = Outcome("UnexpectedInput", "none", 2, NoFilter)

(***************************************************************************)
(* C12.  The parser of a FilterParser is built once and reused: whatever   *)
(* the sequence of parse calls on one instance, grammar generation and     *)
(* parser construction are performed at most once in total.                *)
(***************************************************************************)
C12_GeneratedOnce == generated <= 1

C14_ConcurrentParse ==
    /\ instance = FilterParser_init("Session", filter_fields, status_enum_members)
    /\ \A c \in Callers :
           /\ At(c, "parse") => frames[SlotOf(c)].parser = generate_parser
           /\ At(c, "FilterTransformer") \/ At(c, "transform") =>
                  frames[SlotOf(c)].tree = ParseTree(callers[c].expression, generate_parser).tree
           /\ At(c, "transform") =>
                  frames[SlotOf(c)].transformer =
                      FilterTransformer_init(instance.obj, instance.filter, instance.status_enum)
    /\ \A i \in 1..Len(returned) : returned[i][2] = parse(returned[i][1])

C14_Witness ==
    /\ Len(returned) >= 1
    /\ \E c \in Callers, d \in Callers :
           /\ At(c, "transform")
           /\ At(d, "FilterTransformer")
           /\ callers[c].expression # callers[d].expression

C16_ConstructsKnownTypes ==
    op = "FilterParam" =>
        LET filter_type == capitalize(TypeNameChars[name_arg])
        IN IF filter_type \in ResourceNames
           THEN lookup = Return(StrVal("FilterParser"))
           ELSE lookup = NotAValidFilterType(filter_type)

\* The second half on its own: it holds.
C16_UnknownTypeRejected ==
    op = "FilterParam" =>
        LET filter_type == capitalize(TypeNameChars[name_arg])
        IN filter_type \notin ResourceNames => lookup = NotAValidFilterType(filter_type)

(***************************************************************************)
(* C17.  On a resource with an options field, "options.<key> <comparator>  *)
(* <value>" and "options['<key>'] <comparator> <value>", with a string     *)
(* comparator, compile to the string predicate on the entry options[key].  *)
(***************************************************************************)
C17_OptionsKey ==
    (/\ op = "parse"
     /\ "options" \in FieldNames
     /\ Len(expression) = 3
     /\ expression[1] \in OptionsAccess) =>
        /\ result.kind = "Filter"
        /\ result.filter.tag \in {"leaf", "not"}

(***************************************************************************)
(* C18.  The parser never accepts a part of the input and drops the rest:  *)
(* whenever it gives a tree it has read the input to its end and the words *)
(* of the tree are the words of the input, in order.  An unquoted value of *)
(* several words is a syntax error at its second word, and a quoted string *)
(* as the value of a NUMBER field is a syntax error at the value.          *)
(***************************************************************************)
RECURSIVE TreeWords(_)
TreeWords(t) ==
    IF t.node = "token" THEN <<t.value>>
    ELSE LET below[i \in 0..Len(t.children)] ==
                 IF i = 0 THEN <<>> ELSE below[i - 1] \o TreeWords(t.children[i])
         IN IF t.data \in {"expr", "term"} THEN below[Len(t.children)]
            ELSE <<t.data>> \o below[Len(t.children)]

Structure == {"(", ")", "and", "or"}
Content(e) == SelectSeq(e, LAMBDA w : w \notin Structure \cup Ignored)

Quoted(w) == Len(Chars[w]) >= 2 /\ Chars[w][1] = "\"" /\ Chars[w][Len(Chars[w])] = "\""

C18_WholeInputOrSyntaxError ==
    op = "parse" =>
        /\ tree # NoTree =>
               /\ TreeWords(tree) = Content(expression)
               /\ LarkParse(Lex(expression), fields, get_status).pos = Len(Lex(expression)) + 1
        /\ tree = NoTree => result.kind = "UnexpectedInput" /\ result.filter = NoFilter
        /\ expression = <<"session_id", "=", "id", "ok", "x">> =>
               result = Outcome("UnexpectedInput", "none", 4, NoFilter)
        /\ (/\ IsComparison(expression)
            /\ expression[1] \in FieldNames
            /\ KindOf(expression[1]) = "NUM"
            /\ expression[2] \in AllowedComparators("NUM")
            /\ Quoted(expression[3])) =>
               result = Outcome("UnexpectedInput", "none", 3, NoFilter)

C18_Witness ==
    /\ op = "parse"
    /\ expression = <<"size", "=", "\"1\"">>
    /\ result = Outcome("UnexpectedInput", "none", 3, NoFilter)

C18_WitnessSeveralWords ==
    /\ op = "parse"
    /\ expression = <<"session_id", "=", "id", "ok", "x">>
    /\ result.kind = "UnexpectedInput"

(***************************************************************************)
(* C19.  Grammar generation for a resource that has a field of kind ARRAY  *)
(* fails: it does not return a field list, hence a grammar, that leaves    *)
(* the field out, and no expression is parsed with such a grammar.         *)
(***************************************************************************)
ArrayFields == {n \in FieldNames : KindOf(n) = "ARRAY"}

C19_ArrayKindAborts ==
    (op = "parse" /\ ArrayFields # {}) =>
        /\ fields = <<>>
        /\ tree = NoTree
        /\ result.kind = "UnsupportedFieldKind"

(***************************************************************************)
(* C20.  Whitespace between tokens is insignificant: an expression with    *)
(* more whitespace between its tokens, spaces or tabs, compiles to the     *)
(* same predicate as the expression with single spaces.                    *)
(***************************************************************************)
SingleSpaced(e) == SelectSeq(e, LAMBDA w : w \notin Whitespace)

C20_WhitespaceInsignificant ==
    op = "parse" =>
        /\ result.kind = parse(SingleSpaced(expression)).kind
        /\ result.filter = parse(SingleSpaced(expression)).filter

\* The same for the space character alone: it holds.
C20_SpacesInsignificant ==
    (op = "parse" /\ \A i \in 1..Len(expression) : expression[i] # "\t") =>
        /\ result.kind = parse(SingleSpaced(expression)).kind
        /\ result.filter = parse(SingleSpaced(expression)).filter

(***************************************************************************)
(* C21.  Connection parameters are reconciled in priority order: for every *)
(* key the final value is the command-line value when it is not None,      *)
(* otherwise the value of the optional configuration when it provides one, *)
(* otherwise the value of the default configuration, otherwise None; a key *)
(* the optional configuration does not set falls through to the default    *)
(* one, and an endpoint missing from all three raises a usage error.       *)
(***************************************************************************)
ByPriority(key, a) ==
    IF a.cl_inputs[key] # None THEN a.cl_inputs[key]
    ELSE IF key \in DOMAIN a.optional_config /\ a.optional_config[key] # None
    THEN a.optional_config[key]
    ELSE IF key \in DOMAIN a.default_config /\ a.default_config[key] # None
    THEN a.default_config[key]
    ELSE None

Reconciled(a) ==
    IF ByPriority("endpoint", a) = None THEN Raise("UsageError")
    ELSE Return([key \in ConnectionKeySet |-> ByPriority(key, a)])

C21_PriorityOrder ==
    cmd \in {"reconcile_connection_details", "utils.reconcile_connection_details"}
        => cmd_out = Reconciled(cmd_args)

(***************************************************************************)
(* C22.  error_handler maps every outcome of the wrapped command to one    *)
(* result: a click exception is re-raised unchanged, a gRPC error with     *)
(* status NOT_FOUND becomes NotFoundError, any other gRPC error becomes    *)
(* InternalError, any other exception becomes InternalError when debug is  *)
(* absent or false and is printed without being raised when debug is true; *)
(* when the command raises nothing its return value is returned.           *)
(***************************************************************************)
DebugSet(kwargs) == "debug" \in DOMAIN kwargs /\ kwargs.debug

C22_ErrorMapping ==
    cmd = "error_handler" =>
        LET func == cmd_args.func
            debug == DebugSet(cmd_args.kwargs)
        IN /\ func.exc = "none" => cmd_out = func /\ printed = <<>>
           /\ func.exc \in ClickExceptions => cmd_out = func /\ printed = <<>>
           /\ func.exc = "RpcError" /\ func.orig = "NOT_FOUND"
                => cmd_out.exc = "NotFoundError" /\ printed = <<>>
           /\ func.exc = "RpcError" /\ func.orig # "NOT_FOUND"
                => cmd_out.exc = "InternalError" /\ printed = <<>>
           /\ func.exc \in OtherExceptions /\ ~debug
                => cmd_out.exc = "InternalError" /\ printed = <<>>
           /\ func.exc \in OtherExceptions /\ debug
                => cmd_out.exc = "none" /\ printed = <<"print_exception">>

C22_Witness ==
    /\ cmd = "error_handler"
    /\ cmd_args.func.exc = "ValueError"
    /\ DebugSet(cmd_args.kwargs)
    /\ cmd_out.exc = "none"
    /\ printed = <<"print_exception">>

C22_WitnessNotFound ==
    /\ cmd = "error_handler"
    /\ cmd_args.func = RpcError("NOT_FOUND")
    /\ cmd_out.exc = "NotFoundError"

(***************************************************************************)
(* C23.  MutuallyExclusiveOption: for every set of options given on the    *)
(* command line, parsing fails with a usage error exactly when (a) this    *)
(* option and at least one option of its mutual list are both given, or    *)
(* (b) require_one is set and neither this option nor any option of its    *)
(* mutual list is given; otherwise parsing proceeds as for a normal option.*)
(***************************************************************************)
Given(name, a) == name \in a.opts
BothGiven(a) == Given(a.self.name, a) /\ \E other \in a.self.mutual : Given(other, a)
NoneGiven(a) == ~Given(a.self.name, a) /\ \A other \in a.self.mutual : ~Given(other, a)

C23_MutualExclusion ==
    cmd = "handle_parse_result" =>
        IF BothGiven(cmd_args) \/ (cmd_args.self.require_one /\ NoneGiven(cmd_args))
        THEN cmd_out = Raise("UsageError")
        ELSE cmd_out = super_handle_parse_result

C23_Witness ==
    /\ cmd = "handle_parse_result"
    /\ cmd_args.self.require_one
    /\ cmd_args.self.mutual # {}
    /\ NoneGiven(cmd_args)
    /\ cmd_out = Raise("UsageError")

C23_WitnessBothGiven ==
    /\ cmd = "handle_parse_result"
    /\ cmd_args.self.name \notin cmd_args.self.mutual
    /\ BothGiven(cmd_args)
    /\ cmd_out = Raise("UsageError")

(***************************************************************************)
(* C24.  The --page option of the list commands selects a specific page:   *)
(* for every page number p >= 0 given by the user exactly one list request *)
(* is sent, for page p, and only that page is output; only the default -1  *)
(* fetches all pages.                                                      *)
(***************************************************************************)
PageOf(p) == list_request(server, p, cmd_args.page_size).items

C24_PageSelectsOnePage ==
    cmd = "list" /\ pc = "done" /\ cmd_args.page >= 0 =>
        /\ requests = <<cmd_args.page>>
        /\ printed = PageOf(cmd_args.page)

\* For a page number p >= 1 the loop is left after the first request.
C24_PositivePage ==
    cmd = "list" /\ pc = "done" /\ cmd_args.page >= 1 =>
        /\ requests = <<cmd_args.page>>
        /\ printed = PageOf(cmd_args.page)

(***************************************************************************)
(* C27.  The all-pages loop of the list commands (page <= 0) eventually    *)
(* terminates for every server that reports a fixed finite total: it       *)
(* requests pages 0, 1, 2, ... in increasing order and stops after the     *)
(* first request at which the number of accumulated items is at least the  *)
(* reported total, including when a page comes back empty before the total *)
(* is reached.                                                             *)
(***************************************************************************)
C27_AllPagesTerminates ==
    (cmd = "list" /\ pc = "request" /\ cmd_args.page <= 0) ~> (cmd = "list" /\ pc = "done")

\* The loop is left when the cluster holds as many items as it reports.
C27_TerminatesWhenServed ==
    (cmd = "list" /\ pc = "request" /\ Len(server.items) >= server.total)
        ~> (cmd = "list" /\ pc = "done")

\* The pages are requested in increasing order from 0, and the loop is left at
\* the first request that brings the accumulated items up to the total.
RECURSIVE Accumulated(_)
Accumulated(k) == IF k = 0 THEN <<>> ELSE Accumulated(k - 1) \o PageOf(requests[k])

C27_StopsAtTotal ==
    cmd = "list" /\ cmd_args.page <= 0 =>
        /\ \A k \in 1..Len(requests) : requests[k] = k - 1
        /\ \A k \in 1..(Len(requests) - 1) : Len(Accumulated(k)) < server.total
        /\ pc \in {"print", "done"} => Len(Accumulated(Len(requests))) >= server.total

(***************************************************************************)
(* C28.  When a list command fetches several pages, what it prints is the  *)
(* concatenation, in page order, of the items of every page it fetched;    *)
(* this holds for the session, task, partition and result list commands    *)
(* alike.                                                                  *)
(***************************************************************************)
C28_PrintsEveryPage ==
    cmd = "list" /\ pc = "done" => printed = Accumulated(Len(requests))

\* The same for the session, task and partition list commands only.
C28_PrintsEveryPageButResult ==
    cmd = "list" /\ pc = "done" /\ cmd_args.command # "result"
        => printed = Accumulated(Len(requests))

(***************************************************************************)
(* C25.  Configuration.set(key, value) changes the stored value and saves  *)
(* the file only when key is a known configuration key; for an unknown key *)
(* the configuration object and the configuration file are left unchanged, *)
(* get returns None, and the 'config set' / 'config get' commands print    *)
(* the warning that the key is not a known configuration key.              *)
(***************************************************************************)
KnownKey(key) == key = "endpoint"

C25_SetOnlyKnownKeys ==
    /\ cmd = "Configuration.set" =>
        IF KnownKey(cmd_args.key)
        THEN /\ locals.self[cmd_args.key] = cmd_args.value
             /\ locals.saved
             /\ config_file = [endpoint |-> cmd_args.value]
        ELSE /\ locals.self = cmd_args.self
             /\ ~locals.saved
             /\ config_file = cmd_args.file
    /\ cmd = "Configuration.get" /\ ~KnownKey(cmd_args.key) => cmd_out = Return(None)
    /\ cmd = "config set" /\ ~KnownKey(cmd_args.key) =>
        /\ printed = <<Warning(cmd_args.key)>>
        /\ config_file = cmd_args.file
    /\ cmd = "config set" /\ KnownKey(cmd_args.key) =>
        config_file = [endpoint |-> cmd_args.value]
    /\ cmd = "config get" /\ ~KnownKey(cmd_args.key) => printed = <<Warning(cmd_args.key)>>

C25_Witness ==
    /\ cmd = "Configuration.set"
    /\ ~KnownKey(cmd_args.key)
    /\ cmd_args.file.endpoint # None
    /\ cmd_args.file.endpoint # cmd_args.value
    /\ config_file = cmd_args.file

C25_WitnessKnownKey ==
    /\ cmd = "Configuration.set"
    /\ KnownKey(cmd_args.key)
    /\ config_file # cmd_args.file

C25_WitnessWarning ==
    /\ cmd = "config set"
    /\ printed = <<Warning("not")>>

(***************************************************************************)
(* C26.  TimeDeltaParam.convert accepts a string made of exactly three     *)
(* colon-separated integer parts H:M:S with an optional '.MS' fraction and *)
(* returns the duration of H hours, M minutes, S seconds and MS            *)
(* milliseconds (a fraction shorter than three digits is right-padded with *)
(* zeros); a string with fewer or more than three colon-separated parts or *)
(* a non-integer part (e.g. '1.0', '10', '00:10') fails with               *)
(* click.BadParameter.                                                     *)
(***************************************************************************)
ColonParts(value) == split(value, ":")
DotParts(value) == split(ColonParts(value)[3], ".")

\* H:M:S or H:M:S.MS, every one of H, M, S and MS an integer
HMS(value) ==
    /\ Len(ColonParts(value)) = 3
    /\ MatchSIGNED_INT(ColonParts(value)[1])
    /\ MatchSIGNED_INT(ColonParts(value)[2])
    /\ Len(DotParts(value)) \in {1, 2}
    /\ MatchSIGNED_INT(DotParts(value)[1])
    /\ Len(DotParts(value)) = 2 => AllDigits(DotParts(value)[2])

Milliseconds(value) ==
    ((int(ColonParts(value)[1]).val * 60 + int(ColonParts(value)[2]).val) * 60
        + int(DotParts(value)[1]).val) * 1000
    + (IF Len(DotParts(value)) = 2
       THEN DecimalValue(ljust(DotParts(value)[2], 3, "0")) ELSE 0)

TimeDeltaAsClaimed(value) ==
    IF HMS(value)
    THEN cmd_out = Return(TimedeltaVal(Milliseconds(value)))
    ELSE cmd_out = Raise("BadParameter")

C26_TimeDeltaFormat ==
    cmd = "TimeDeltaParam.convert" => TimeDeltaAsClaimed(cmd_args.value)

\* The same, leaving aside the values whose seconds part has an empty fraction
\* or more than one dot.
C26_TimeDeltaOneFraction ==
    /\ cmd = "TimeDeltaParam.convert"
    /\ Len(ColonParts(cmd_args.value)) = 3
            => /\ Len(DotParts(cmd_args.value)) <= 2
               /\ DotParts(cmd_args.value)[Len(DotParts(cmd_args.value))] # <<>>
    => TimeDeltaAsClaimed(cmd_args.value)

(***************************************************************************)
(* C29.  Task options of 'task create' are all-or-nothing: when            *)
(* max-duration, priority and max-retries are all given the task is        *)
(* submitted with task options built from them; when none of the three is  *)
(* given the task is submitted with no task options; when one or two of    *)
(* the three are given the command fails with an error and no task is      *)
(* submitted.                                                              *)
(***************************************************************************)
GivenOptions(a) ==
    Cardinality({o \in {"max_duration", "priority", "max_retries"} : a[o] # None})

Submitted == Len(requests) = 1 /\ requests[1].rpc = "SubmitTasks" /\ cmd_out.exc = "none"
SubmittedOptions == requests[1].tasks[1].task_options

C29_AllOrNothing ==
    cmd = "task create" =>
        /\ GivenOptions(cmd_args) = 3 =>
            /\ Submitted
            /\ SubmittedOptions # NoTaskOptions
            /\ SubmittedOptions.max_duration = cmd_args.max_duration
            /\ SubmittedOptions.priority = cmd_args.priority
            /\ SubmittedOptions.max_retries = cmd_args.max_retries
        /\ GivenOptions(cmd_args) = 0 => Submitted /\ SubmittedOptions = NoTaskOptions
        /\ GivenOptions(cmd_args) \in {1, 2} => cmd_out.exc # "none" /\ requests = <<>>

C29_Witness ==
    /\ cmd = "task create"
    /\ GivenOptions(cmd_args) = 2
    /\ cmd_args.priority = "0"
    /\ cmd_out = Raise("InternalError")
    /\ requests = <<>>

C29_WitnessAllGiven ==
    /\ cmd = "task create"
    /\ GivenOptions(cmd_args) = 3
    /\ Submitted

(***************************************************************************)
(* C30.  cancel_sessions attempts to cancel every session id of its list   *)
(* exactly once and in list order: a gRPC error raised while cancelling    *)
(* one session is reported and does not stop the attempts on the sessions  *)
(* that follow it.                                                         *)
(***************************************************************************)
Reported(k) ==
    IF cmd_args.sessions[k] \in server.refused
    THEN printed[k] = ErrorForCanceling(cmd_args.sessions[k])
    ELSE printed[k] = Canceled(cmd_args.sessions[k])

C30_EverySessionAttempted ==
    cmd = "cancel_sessions" =>
        /\ Len(requests) <= Len(cmd_args.sessions)
        /\ requests = SubSeq(cmd_args.sessions, 1, Len(requests))
        /\ Len(printed) = Len(requests)
        /\ \A k \in 1..Len(requests) : Reported(k)
        /\ pc = "done" => requests = cmd_args.sessions

C30_Witness ==
    /\ cmd = "cancel_sessions"
    /\ pc = "done"
    /\ Len(cmd_args.sessions) = 3
    /\ cmd_args.sessions[1] \in server.refused
    /\ cmd_args.sessions[2] \notin server.refused
    /\ cmd_args.sessions[3] = cmd_args.sessions[1]
    /\ requests = cmd_args.sessions

\* The loop ends: every session of the list is attempted.
C30_AllAttemptedInTheEnd ==
    (cmd = "cancel_sessions") ~> (cmd = "cancel_sessions" /\ pc = "done")

====
